---- MODULE Spec2Model ----
(***************************************************************************)
(* Model of the free lists of CarloWood/memory:                            *)
(*   - PtrTag: a pointer and a 2-bit tag packed in one word;               *)
(*   - SimpleSegregatedStorageBase: lock-free allocate / deallocate;       *)
(*   - SimpleSegregatedStorage: try_allocate_more / add_block under        *)
(*     m_add_block_mutex, driven by NodeMemoryResource::allocate;          *)
(*   - MappedSegregatedStorage: allocate with lazy tail extension, driven  *)
(*     by MemoryMappedPool.                                                *)
(* Every load, store and compare-exchange of the code that another thread  *)
(* can observe is one step of a thread.                                    *)
(***************************************************************************)
EXTENDS Integers, Sequences, FiniteSets, TLC

VARIABLES
  m_head_tag,          \* std::atomic<uintptr_t> SimpleSegregatedStorageBase::m_head_tag
  mem,                 \* FreeNode::m_next of every block, by address
  m_add_block_mutex,   \* 0 when free, else the thread that owns it
  pc,                  \* position of each thread in its current call
  head_tag,            \* local PtrTag head_tag of allocate / deallocate / add_block
  new_head_tag,        \* local PtrTag new_head_tag
  new_front_node,      \* local of deallocate: the block being pushed
  chunk,               \* local of the refill lambda: the chunk from mpp_->allocate()
  ret,                 \* the thread and value of the allocate that returned in the last step
  held,                \* per block: how many callers hold it (2: two or more)
  chunks_given,        \* number of chunks the upstream pool handed out
  popped,              \* per thread: another pop succeeded since it loaded head_tag
  calls_left,          \* calls the threads may still make (NONE: any number)
  mapped_base_,        \* MemoryMappedPool::mapped_base_
  mapped_size_,        \* MemoryMappedPool::mapped_size_
  block_size_,         \* MemoryPagePoolBase::block_size_ of the mapped pool
  crashed,             \* an access outside the mapping faulted
  fresh,               \* no deallocate was called on the mapped list yet
  alloc_log,           \* results of the allocate calls on the still fresh mapped list
  sizeof_ptr,          \* sizeof(void*) of the build
  m_node_memory_resources, \* DequeMemoryResource: per index mpp_, block_size_ and m_head_tag
  dq_mem,              \* FreeNode::m_next of the blocks of the buckets, by address
  dq_chunks,           \* the chunks the pool of the buckets handed out: the index each went to
  dq_held,             \* the blocks the caller of the DequeMemoryResource holds, with their sizes
  dq_ret,              \* the last call on the DequeMemoryResource and its result
  dq_aborted,          \* an ASSERT of the DequeMemoryResource failed
  dq_calls_left,       \* calls the caller of the DequeMemoryResource may still make
  file,                \* what is at the path of the MemoryMappedPool: kind, length, all bytes zero
  ctor,                \* arguments, locals and position of the MemoryMappedPool constructor, and the file it found
  open_fds,            \* the file descriptors open in the process
  mappings,            \* the memory mappings of the process
  reopened,            \* the MemoryMappedPool was destroyed and constructed again on its file
  round_trip,          \* the single caller's plan: allocate, give everything back, allocate again
  sized,               \* a NodeMemoryResource of a given block size on a MemoryPagePool of a given block size
  nmr,                 \* NodeMemoryResource::mpp_, block_size_ and the threads initialising them
  mpp,                 \* MemoryPagePool: m_chunks, the mutex of m_sss and the chunks of the host
  nmp,                 \* NodeMemoryPool: its members, its blocks and the threads calling it
  ptrtag,              \* a PtrTag, the node it points to and the results of its members
  lifo                 \* the single caller's plan: give a block back and allocate at once

dqvars == <<sizeof_ptr, m_node_memory_resources, dq_mem, dq_chunks, dq_held,
            dq_ret, dq_aborted, dq_calls_left>>

\* The variables of the classes other than the two free lists.
ctorvars == <<file, ctor, open_fds, mappings>>

\* The variables of the pools.
\* The classes modelled on their own.
classvars == <<sized, nmr, mpp, nmp, ptrtag, lifo>>

poolvars == <<reopened, round_trip, classvars>>

restvars == <<dqvars, ctorvars, poolvars>>

\* The variables of the two free lists.
listvars == <<m_head_tag, mem, m_add_block_mutex, pc, head_tag, new_head_tag,
              new_front_node, chunk, ret, held, chunks_given, popped,
              calls_left, mapped_base_, mapped_size_, block_size_, crashed,
              fresh, alloc_log>>

vars == <<listvars, restvars>>

mapvars == <<mapped_base_, mapped_size_, block_size_, crashed, fresh, alloc_log>>

-----------------------------------------------------------------------------
(* Bounds and inputs.                                                      *)

Threads == {1, 2}

\* Number of chunks the upstream MemoryPagePool can supply before it fails.
MaxChunks == 1

\* Number of allocate / deallocate calls of a run of SpecCalls or SpecMapped.
MaxCalls == 7

\* Largest size of the mapped file, in pages.
MaxPages == 4

\* The host page size.
memory_page_size == 4096

\* mpp_->block_size(): the size of one upstream chunk.
mpp_block_size == 4096

\* NodeMemoryResource::block_size_: the size of one partition.
stored_block_size == 2048

\* nullptr.
NULL == 0
\* A value that is no pointer: nothing was returned in this step.
NONE == NULL - 1

NoRet == [thread |-> 0, value |-> NONE]

-----------------------------------------------------------------------------
(* PtrTag.                                                                 *)

tag_mask == 3
end_of_list == tag_mask

\* x & tag_mask and x & ptr_mask for a non-negative x.
AndTagMask(x) == x % (tag_mask + 1)
AndPtrMask(x) == x - (x % (tag_mask + 1))

\* a | b for a, b in 0..3.
Or2(a, b) ==
  (IF (a % 2 = 1) \/ (b % 2 = 1) THEN 1 ELSE 0)
  + 2 * (IF (a \div 2 = 1) \/ (b \div 2 = 1) THEN 1 ELSE 0)

\* An encode that adds the tag without masking it.
encode_unmasked(p, t) == p + t

encode(p, t) == AndPtrMask(p) + Or2(AndTagMask(p), AndTagMask(t))

ptr(e) == AndPtrMask(e)
tag(e) == AndTagMask(e)

PtrTag(node, t) == IF node # NULL THEN encode(node, t) ELSE end_of_list

\* PtrTag::next() of the encoded value e, reading m_next from memory m.
next(e, m) == PtrTag(m[ptr(e)], tag(e) + 1)

-----------------------------------------------------------------------------
(* The blocks of the anonymous free list.                                  *)

\* The address of the c-th chunk the upstream pool hands out.
ChunkBase(c) == c * 2 * mpp_block_size

number_of_partitions == mpp_block_size \div stored_block_size

ChunkBlocks(c) ==
  {ChunkBase(c) + k * stored_block_size : k \in 0..(number_of_partitions - 1)}

SSSBlocks == UNION {ChunkBlocks(c) : c \in 1..MaxChunks}

first_ptr(block) == block
last_ptr(block) == block + (number_of_partitions - 1) * stored_block_size

\* A thread whose call returned forgets its locals.
Return(t) ==
  /\ pc' = [pc EXCEPT ![t] = "idle"]
  /\ head_tag' = [head_tag EXCEPT ![t] = 0]
  /\ new_head_tag' = [new_head_tag EXCEPT ![t] = 0]
  /\ new_front_node' = [new_front_node EXCEPT ![t] = NULL]

Hold(p) == [held EXCEPT ![p] = IF @ < 2 THEN @ + 1 ELSE 2]

\* One more call is made.
CountCall ==
  /\ calls_left # 0
  /\ calls_left' = IF calls_left > 0 THEN calls_left - 1 ELSE calls_left

-----------------------------------------------------------------------------
(* SimpleSegregatedStorageBase::allocate as NodeMemoryResource calls it.   *)

\* PtrTag head_tag(m_head_tag.load(acquire)); while (head_tag != end_of_list)
LoadHead(t) ==
  /\ head_tag' = [head_tag EXCEPT ![t] = m_head_tag]
  /\ pc' = [pc EXCEPT ![t] =
              IF m_head_tag # end_of_list THEN "a_next" ELSE "tam_lock"]
  /\ popped' = [popped EXCEPT ![t] = FALSE]
  /\ ret' = NoRet
  /\ UNCHANGED <<m_head_tag, mem, new_head_tag, new_front_node, held>>
  /\ UNCHANGED <<m_add_block_mutex, chunk, chunks_given>>
  /\ UNCHANGED <<mapvars, restvars>>

\* A caller enters allocate.
allocate(t) ==
  /\ pc[t] = "idle"
  /\ CountCall
  /\ LoadHead(t)

\* The outer for (;;) of allocate runs again after try_allocate_more.
allocate_again(t) ==
  /\ pc[t] = "a_load"
  /\ LoadHead(t)
  /\ UNCHANGED calls_left

\* PtrTag new_head_tag = head_tag.next();
allocate_next(t) ==
  /\ pc[t] = "a_next"
  /\ new_head_tag' = [new_head_tag EXCEPT ![t] = next(head_tag[t], mem)]
  /\ pc' = [pc EXCEPT ![t] = "a_cas"]
  /\ ret' = NoRet
  /\ UNCHANGED <<m_head_tag, mem, head_tag, new_front_node, held, popped>>
  /\ UNCHANGED <<m_add_block_mutex, chunk, chunks_given, calls_left>>
  /\ UNCHANGED <<mapvars, restvars>>

\* Which threads a successful pop by t overtakes.
Overtake(t) ==
  [u \in Threads |->
     IF u = t THEN FALSE
     ELSE IF pc[u] \in {"a_next", "a_cas"} THEN TRUE
     ELSE popped[u]]

\* The compare-exchange of allocate succeeds: return the old head.
allocate_cas_ok(t) ==
  /\ pc[t] = "a_cas"
  /\ m_head_tag = head_tag[t]
  /\ m_head_tag' = new_head_tag[t]
  /\ held' = Hold(ptr(head_tag[t]))
  /\ popped' = Overtake(t)
  /\ ret' = [thread |-> t, value |-> ptr(head_tag[t])]
  /\ Return(t)
  /\ UNCHANGED mem
  /\ UNCHANGED <<m_add_block_mutex, chunk, chunks_given, calls_left>>
  /\ UNCHANGED <<mapvars, restvars>>

\* The compare-exchange of allocate fails (compare_exchange_weak may also
\* fail spuriously): head_tag is reloaded and the inner loop runs again.
allocate_cas_fail(t) ==
  /\ pc[t] = "a_cas"
  /\ head_tag' = [head_tag EXCEPT ![t] = m_head_tag]
  /\ pc' = [pc EXCEPT ![t] =
              IF m_head_tag # end_of_list THEN "a_next" ELSE "tam_lock"]
  /\ popped' = [popped EXCEPT ![t] = FALSE]
  /\ new_head_tag' = [new_head_tag EXCEPT ![t] = 0]
  /\ ret' = NoRet
  /\ UNCHANGED <<m_head_tag, mem, new_front_node, held>>
  /\ UNCHANGED <<m_add_block_mutex, chunk, chunks_given, calls_left>>
  /\ UNCHANGED <<mapvars, restvars>>

-----------------------------------------------------------------------------
(* SimpleSegregatedStorage::try_allocate_more and the refill lambda of     *)
(* NodeMemoryResource::allocate.                                           *)

\* A try_allocate_more that does not wait for the mutex.
tam_lock_no_wait(t) ==
  /\ pc[t] = "tam_lock"
  /\ m_add_block_mutex' = t
  /\ pc' = [pc EXCEPT ![t] = "tam_check"]
  /\ ret' = NoRet
  /\ UNCHANGED <<m_head_tag, mem, head_tag, new_head_tag, new_front_node, held,
                 popped, chunk, chunks_given>>
  /\ UNCHANGED calls_left
  /\ UNCHANGED <<mapvars, restvars>>

\* std::scoped_lock<std::mutex> lk(m_add_block_mutex);
tam_lock(t) ==
  /\ pc[t] = "tam_lock"
  /\ m_add_block_mutex = 0
  /\ m_add_block_mutex' = t
  /\ pc' = [pc EXCEPT ![t] = "tam_check"]
  /\ ret' = NoRet
  /\ UNCHANGED <<m_head_tag, mem, head_tag, new_head_tag, new_front_node, held,
                 popped, chunk, chunks_given>>
  /\ UNCHANGED calls_left
  /\ UNCHANGED <<mapvars, restvars>>

\* A scoped_lock whose destructor does not release the mutex.
Unlock_never(t) == m_add_block_mutex

\* The mutex as the scoped_lock's destructor leaves it.
Unlock(t) == IF m_add_block_mutex = t THEN 0 ELSE m_add_block_mutex

\* A try_allocate_more that runs the lambda without looking at m_head_tag.
try_allocate_more_no_recheck(t) ==
  /\ pc[t] = "tam_check"
  /\ head_tag' = [head_tag EXCEPT ![t] = m_head_tag]
  /\ pc' = [pc EXCEPT ![t] = "in_mpp"]
  /\ ret' = NoRet
  /\ UNCHANGED <<m_head_tag, mem, new_head_tag, new_front_node, held, popped,
                 chunk, chunks_given, m_add_block_mutex>>
  /\ UNCHANGED calls_left
  /\ UNCHANGED <<mapvars, restvars>>

\* A try_allocate_more that releases the mutex before it runs the lambda.
try_allocate_more_unlocked(t) ==
  /\ pc[t] = "tam_check"
  /\ head_tag' = [head_tag EXCEPT ![t] = m_head_tag]
  /\ m_add_block_mutex' = Unlock(t)
  /\ pc' = [pc EXCEPT ![t] =
              IF m_head_tag # end_of_list THEN "a_load" ELSE "in_mpp"]
  /\ ret' = NoRet
  /\ UNCHANGED <<m_head_tag, mem, new_head_tag, new_front_node, held, popped,
                 chunk, chunks_given>>
  /\ UNCHANGED calls_left
  /\ UNCHANGED <<mapvars, restvars>>

\* return m_head_tag.load(relaxed) != end_of_list || add_new_block();
\* head_tag keeps the value loaded.  A list that is no longer empty makes
\* the call return true (the mutex is released, allocate loops); otherwise
\* the lambda runs and enters mpp_->allocate().
try_allocate_more(t) ==
  /\ pc[t] = "tam_check"
  /\ head_tag' = [head_tag EXCEPT ![t] = m_head_tag]
  /\ IF m_head_tag # end_of_list
       THEN /\ m_add_block_mutex' = Unlock(t)
            /\ pc' = [pc EXCEPT ![t] = "a_load"]
       ELSE /\ m_add_block_mutex' = m_add_block_mutex
            /\ pc' = [pc EXCEPT ![t] = "in_mpp"]
  /\ ret' = NoRet
  /\ UNCHANGED <<m_head_tag, mem, new_head_tag, new_front_node, held, popped,
                 chunk, chunks_given>>
  /\ UNCHANGED calls_left
  /\ UNCHANGED <<mapvars, restvars>>

\* mpp_->allocate() returns nullptr: the lambda returns false, so does
\* try_allocate_more (releasing the mutex), and allocate returns nullptr.
refill_fail(t) ==
  /\ pc[t] = "in_mpp"
  /\ m_add_block_mutex' = Unlock(t)
  /\ ret' = [thread |-> t, value |-> NULL]
  /\ Return(t)
  /\ UNCHANGED <<m_head_tag, mem, held, popped, chunk, chunks_given>>
  /\ UNCHANGED calls_left
  /\ UNCHANGED <<mapvars, restvars>>

\* mpp_->allocate() returns a chunk; the lambda calls add_block with it.
refill_chunk(t) ==
  /\ pc[t] = "in_mpp"
  /\ chunks_given < MaxChunks
  /\ chunks_given' = chunks_given + 1
  /\ chunk' = [chunk EXCEPT ![t] = ChunkBase(chunks_given + 1)]
  /\ pc' = [pc EXCEPT ![t] = "ab_link"]
  /\ ret' = NoRet
  /\ UNCHANGED <<m_head_tag, mem, m_add_block_mutex, head_tag, new_head_tag,
                 new_front_node, held, popped>>
  /\ UNCHANGED calls_left
  /\ UNCHANGED <<mapvars, restvars>>

\* The memory after the do-while loop of add_block: every partition but the
\* last is linked to the one after it.
LinkPartitions(block, m) ==
  [a \in DOMAIN m |->
     IF /\ a >= first_ptr(block)
        /\ a < last_ptr(block)
        /\ (a - first_ptr(block)) % stored_block_size = 0
     THEN a + stored_block_size
     ELSE m[a]]

\* add_block up to its load of m_head_tag.
add_block(t) ==
  /\ pc[t] = "ab_link"
  /\ number_of_partitions > 1
  /\ mem' = LinkPartitions(chunk[t], mem)
  /\ new_head_tag' = [new_head_tag EXCEPT ![t] = PtrTag(first_ptr(chunk[t]), 0)]
  /\ head_tag' = [head_tag EXCEPT ![t] = m_head_tag]
  /\ pc' = [pc EXCEPT ![t] = "ab_splice"]
  /\ ret' = NoRet
  /\ UNCHANGED <<m_head_tag, m_add_block_mutex, new_front_node, held, popped,
                 chunk, chunks_given>>
  /\ UNCHANGED calls_left
  /\ UNCHANGED <<mapvars, restvars>>

\* last_node->m_next = head_tag.ptr();
add_block_splice(t) ==
  /\ pc[t] = "ab_splice"
  /\ mem' = [mem EXCEPT ![last_ptr(chunk[t])] = ptr(head_tag[t])]
  /\ pc' = [pc EXCEPT ![t] = "ab_cas"]
  /\ ret' = NoRet
  /\ UNCHANGED <<m_head_tag, m_add_block_mutex, head_tag, new_head_tag,
                 new_front_node, held, popped, chunk, chunks_given>>
  /\ UNCHANGED calls_left
  /\ UNCHANGED <<mapvars, restvars>>

\* The compare-exchange of add_block succeeds: the lambda returns true,
\* try_allocate_more returns true (releasing the mutex) and allocate runs
\* its outer loop again.
add_block_cas_ok(t) ==
  /\ pc[t] = "ab_cas"
  /\ m_head_tag = head_tag[t]
  /\ m_head_tag' = new_head_tag[t]
  /\ m_add_block_mutex' = Unlock(t)
  /\ chunk' = [chunk EXCEPT ![t] = NULL]
  /\ head_tag' = [head_tag EXCEPT ![t] = 0]
  /\ new_head_tag' = [new_head_tag EXCEPT ![t] = 0]
  /\ pc' = [pc EXCEPT ![t] = "a_load"]
  /\ ret' = NoRet
  /\ UNCHANGED <<mem, new_front_node, held, popped, chunks_given>>
  /\ UNCHANGED calls_left
  /\ UNCHANGED <<mapvars, restvars>>

\* The compare-exchange of add_block fails: splice again.
add_block_cas_fail(t) ==
  /\ pc[t] = "ab_cas"
  /\ head_tag' = [head_tag EXCEPT ![t] = m_head_tag]
  /\ pc' = [pc EXCEPT ![t] = "ab_splice"]
  /\ ret' = NoRet
  /\ UNCHANGED <<m_head_tag, mem, m_add_block_mutex, new_head_tag,
                 new_front_node, held, popped, chunk, chunks_given>>
  /\ UNCHANGED calls_left
  /\ UNCHANGED <<mapvars, restvars>>

-----------------------------------------------------------------------------
(* SimpleSegregatedStorageBase::deallocate.                                *)

\* A caller passes a pointer it holds; head_tag(m_head_tag.load(relaxed)).
deallocate(t, p) ==
  /\ pc[t] = "idle"
  /\ held[p] > 0
  /\ ~crashed
  /\ CountCall
  /\ held' = [held EXCEPT ![p] = @ - 1]
  /\ new_front_node' = [new_front_node EXCEPT ![t] = p]
  /\ head_tag' = [head_tag EXCEPT ![t] = m_head_tag]
  /\ pc' = [pc EXCEPT ![t] = "d_write"]
  /\ ret' = NoRet
  /\ fresh' = FALSE
  /\ alloc_log' = <<>>
  /\ UNCHANGED <<m_head_tag, mem, new_head_tag, popped>>
  /\ UNCHANGED <<m_add_block_mutex, chunk, chunks_given>>
  /\ UNCHANGED <<mapped_base_, mapped_size_, block_size_, crashed, restvars>>

\* A deallocate that writes m_next only while nobody owns m_add_block_mutex.
deallocate_write_locked(t) ==
  /\ m_add_block_mutex = 0
  /\ pc[t] = "d_write"
  /\ ~crashed
  /\ new_head_tag' = [new_head_tag EXCEPT ![t] =
                        PtrTag(new_front_node[t], tag(head_tag[t]))]
  /\ mem' = IF new_front_node[t] \in DOMAIN mem
              THEN [mem EXCEPT ![new_front_node[t]] = ptr(head_tag[t])]
              ELSE mem
  /\ pc' = [pc EXCEPT ![t] = "d_cas"]
  /\ ret' = NoRet
  /\ UNCHANGED <<m_head_tag, head_tag, new_front_node, held, popped>>
  /\ UNCHANGED <<m_add_block_mutex, chunk, chunks_given, calls_left>>
  /\ UNCHANGED <<mapvars, restvars>>

\* A deallocate that stores nullptr in m_next.
deallocate_write_unlinked(t) ==
  /\ pc[t] = "d_write"
  /\ ~crashed
  /\ new_head_tag' = [new_head_tag EXCEPT ![t] =
                        PtrTag(new_front_node[t], tag(head_tag[t]))]
  /\ mem' = IF new_front_node[t] \in DOMAIN mem
              THEN [mem EXCEPT ![new_front_node[t]] = NULL]
              ELSE mem
  /\ pc' = [pc EXCEPT ![t] = "d_cas"]
  /\ ret' = NoRet
  /\ UNCHANGED <<m_head_tag, head_tag, new_front_node, held, popped>>
  /\ UNCHANGED <<m_add_block_mutex, chunk, chunks_given, calls_left>>
  /\ UNCHANGED <<mapvars, restvars>>

\* PtrTag const new_head_tag(new_front_node, head_tag.tag());
\* new_front_node->m_next = head_tag.ptr();
\* A store outside the tracked memory lands in memory of somebody else.
deallocate_write(t) ==
  /\ pc[t] = "d_write"
  /\ ~crashed
  /\ new_head_tag' = [new_head_tag EXCEPT ![t] =
                        PtrTag(new_front_node[t], tag(head_tag[t]))]
  /\ mem' = IF new_front_node[t] \in DOMAIN mem
              THEN [mem EXCEPT ![new_front_node[t]] = ptr(head_tag[t])]
              ELSE mem
  /\ pc' = [pc EXCEPT ![t] = "d_cas"]
  /\ ret' = NoRet
  /\ UNCHANGED <<m_head_tag, head_tag, new_front_node, held, popped>>
  /\ UNCHANGED <<m_add_block_mutex, chunk, chunks_given, calls_left>>
  /\ UNCHANGED <<mapvars, restvars>>

\* The compare-exchange of deallocate succeeds.
deallocate_cas_ok(t) ==
  /\ pc[t] = "d_cas"
  /\ m_head_tag = head_tag[t]
  /\ m_head_tag' = new_head_tag[t]
  /\ ret' = NoRet
  /\ Return(t)
  /\ UNCHANGED <<mem, held, popped>>
  /\ UNCHANGED <<m_add_block_mutex, chunk, chunks_given, calls_left>>
  /\ UNCHANGED <<mapvars, restvars>>

\* The compare-exchange of deallocate fails: head_tag is reloaded.
deallocate_cas_fail(t) ==
  /\ pc[t] = "d_cas"
  /\ head_tag' = [head_tag EXCEPT ![t] = m_head_tag]
  /\ pc' = [pc EXCEPT ![t] = "d_write"]
  /\ ret' = NoRet
  /\ UNCHANGED <<m_head_tag, mem, new_head_tag, new_front_node, held, popped>>
  /\ UNCHANGED <<m_add_block_mutex, chunk, chunks_given, calls_left>>
  /\ UNCHANGED <<mapvars, restvars>>

-----------------------------------------------------------------------------
(* DequeMemoryResource: twelve NodeMemoryResource buckets and malloc, used *)
(* by one caller.                                                          *)

\* Number of chunks the MemoryPagePool of the buckets can supply.
MaxDequeChunks == 1

\* Number of allocate / deallocate calls of a run of SpecDeque.
MaxDequeCalls == 3

\* DequeMemoryResource::nmra_size: the number of buckets.
nmra_size == 12

\* A table with two of its sizes exchanged.
i2s_exchanged == <<8, 12, 18, 26, 38, 54, 111, 78, 158, 224, 318, 451>>

\* Map m_node_memory_resources array index to the block size it must store.
i2s == <<8, 12, 18, 26, 38, 54, 78, 111, 158, 224, 318, 451>>

\* Convert an index to its size.
index_to_size(n) == sizeof_ptr * i2s[n + 1]

\* The largest size for which a NodeMemoryResource is used.
upper_size == index_to_size(Len(i2s) - 1)

\* The first index from i on whose size holds n bytes (the last index when
\* none does).
RECURSIVE FirstFit(_, _)
FirstFit(n, i) ==
  IF i >= nmra_size - 1 \/ index_to_size(i) >= n THEN i ELSE FirstFit(n, i + 1)

\* DequeMemoryResource::size_to_index.
size_to_index(n) == FirstFit(n, 0)

\* The route of a call that is not for a bucket.
HOST == nmra_size

\* if (number_of_bytes > upper_size) return malloc(number_of_bytes);
\* index = size_to_index(number_of_bytes);  An allocate off by one bucket.
allocate_route_below(n) ==
  IF n > upper_size THEN HOST
  ELSE IF size_to_index(n) > 0 THEN size_to_index(n) - 1 ELSE 0

\* An allocate that sends upper_size itself to malloc.
allocate_route_early(n) == IF n >= upper_size THEN HOST ELSE size_to_index(n)

\* The route DequeMemoryResource::allocate takes for number_of_bytes = n.
allocate_route(n) == IF n > upper_size THEN HOST ELSE size_to_index(n)

\* A deallocate that frees upper_size itself with free().
deallocate_route_early(n) == IF n >= upper_size THEN HOST ELSE size_to_index(n)

\* The route DequeMemoryResource::deallocate takes for number_of_bytes = n.
deallocate_route(n) == IF n > upper_size THEN HOST ELSE size_to_index(n)

\* The block size of the MemoryPagePool the buckets are bound to.
dq_mpp_block_size == 8192

\* The chunks mpp_->allocate() returns, in order.
DqChunkBase(c) == c * dq_mpp_block_size

\* The partitions add_block makes of chunk c for partition_size size.
DqPartitions(c, size) ==
  {DqChunkBase(c) + k * size : k \in 0..((dq_mpp_block_size \div size) - 1)}

\* add_block: every partition points to the next one, the last one to the
\* old front node.
DqLink(c, size, old_front, m) ==
  LET parts == DqPartitions(c, size)
      last == DqChunkBase(c) + ((dq_mpp_block_size \div size) - 1) * size
  IN [a \in (DOMAIN m) \cup parts |->
        IF a \in parts
          THEN IF a = last THEN old_front ELSE a + size
          ELSE m[a]]

\* What malloc can return: a block nobody holds, or nullptr.
HostBlocks == {(MaxDequeChunks + 2) * dq_mpp_block_size + k * 4096 : k \in 0..1}

malloc == {b \in HostBlocks : \A h \in dq_held : h.p # b} \cup {NULL}

\* The sizes a caller asks for: the smallest one, the size of every bucket
\* and the first size that is too large for it.
DequeSizes ==
  {1} \cup {index_to_size(i) + d : i \in 0..(nmra_size - 1), d \in {0, 1}}

NoDqRet == [op |-> "none", n |-> 0, route |-> NONE, p |-> NONE]

DqCountCall ==
  /\ dq_calls_left > 0
  /\ dq_calls_left' = dq_calls_left - 1

\* A failed ASSERT ends the program.
DqAbort(call, n) ==
  /\ dq_aborted' = TRUE
  /\ dq_ret' = [op |-> call, n |-> n, route |-> NONE, p |-> NONE]
  /\ UNCHANGED <<sizeof_ptr, m_node_memory_resources, dq_mem, dq_chunks, dq_held>>

\* An init without the ASSERT(mpp_ == nullptr) of NodeMemoryResource::init.
Deque_init_again ==
  /\ ~dq_aborted
  /\ UNCHANGED dq_calls_left
  /\ m_node_memory_resources' =
       [index \in 0..(nmra_size - 1) |->
          [m_node_memory_resources[index] EXCEPT
             !.mpp_ = 1, !.block_size_ = index_to_size(index)]]
  /\ dq_ret' = [op |-> "init", n |-> 0, route |-> NONE, p |-> NONE]
  /\ UNCHANGED <<sizeof_ptr, dq_mem, dq_chunks, dq_held, dq_aborted>>
  /\ UNCHANGED <<listvars, ctorvars, poolvars>>

\* NodeMemoryResource::init(mpp_ptr, block_size) on every bucket; the ASSERT
\* of the first bucket fails when it is bound already.
Deque_init ==
  /\ ~dq_aborted
  /\ UNCHANGED dq_calls_left
  /\ IF m_node_memory_resources[0].mpp_ # NULL
       THEN DqAbort("init", 0)
       ELSE /\ m_node_memory_resources' =
                 [index \in 0..(nmra_size - 1) |->
                    [m_node_memory_resources[index] EXCEPT
                       !.mpp_ = 1, !.block_size_ = index_to_size(index)]]
            /\ dq_ret' = [op |-> "init", n |-> 0, route |-> NONE, p |-> NONE]
            /\ UNCHANGED <<sizeof_ptr, dq_mem, dq_chunks, dq_held, dq_aborted>>
  /\ UNCHANGED <<listvars, ctorvars, poolvars>>

\* NodeMemoryResource::allocate(n) of bucket index with one caller: the pop,
\* and before it the refill under the mutex when the list is empty.
NodeMemoryResource_allocate(index, n) ==
  LET r == m_node_memory_resources[index]
      stored_size == IF r.block_size_ = 0 THEN n ELSE r.block_size_
      refill == r.m_head_tag = end_of_list
      c == Len(dq_chunks) + 1
      list == IF refill THEN DqLink(c, stored_size, NULL, dq_mem) ELSE dq_mem
      head == IF refill THEN PtrTag(DqChunkBase(c), 0) ELSE r.m_head_tag
  IN IF r.block_size_ = 0 /\ r.mpp_ = NULL
       THEN DqAbort("allocate", n)
     ELSE IF refill /\ Len(dq_chunks) >= MaxDequeChunks
       THEN /\ dq_ret' = [op |-> "allocate", n |-> n, route |-> index, p |-> NULL]
            /\ m_node_memory_resources' =
                 [m_node_memory_resources EXCEPT ![index].block_size_ = stored_size]
            /\ UNCHANGED <<sizeof_ptr, dq_mem, dq_chunks, dq_held, dq_aborted>>
     ELSE /\ dq_mem' = list
          /\ dq_chunks' = IF refill THEN Append(dq_chunks, index) ELSE dq_chunks
          /\ m_node_memory_resources' =
               [m_node_memory_resources EXCEPT
                  ![index].block_size_ = stored_size,
                  ![index].m_head_tag = next(head, list)]
          /\ dq_ret' = [op |-> "allocate", n |-> n, route |-> index, p |-> ptr(head)]
          /\ dq_held' = dq_held \cup {[p |-> ptr(head), n |-> n]}
          /\ UNCHANGED <<sizeof_ptr, dq_aborted>>

\* DequeMemoryResource::allocate(number_of_bytes).
Deque_allocate(n) ==
  /\ ~dq_aborted
  /\ DqCountCall
  /\ IF allocate_route(n) = HOST
       THEN \E b \in malloc :
              /\ dq_ret' = [op |-> "allocate", n |-> n, route |-> HOST, p |-> b]
              /\ dq_held' = IF b = NULL THEN dq_held
                            ELSE dq_held \cup {[p |-> b, n |-> n]}
              /\ UNCHANGED <<sizeof_ptr, m_node_memory_resources, dq_mem,
                             dq_chunks, dq_aborted>>
       ELSE NodeMemoryResource_allocate(allocate_route(n), n)
  /\ UNCHANGED <<listvars, ctorvars, poolvars>>

\* DequeMemoryResource::deallocate(p, number_of_bytes) with a block the
\* caller holds and the size it was allocated with: free(p), or the push of
\* NodeMemoryResource::deallocate on the bucket of that size.
Deque_deallocate(h) ==
  /\ ~dq_aborted
  /\ h \in dq_held
  /\ DqCountCall
  /\ dq_held' = dq_held \ {h}
  /\ dq_ret' = [op |-> "deallocate", n |-> h.n, route |-> deallocate_route(h.n),
                p |-> h.p]
  /\ IF deallocate_route(h.n) = HOST
       THEN UNCHANGED <<m_node_memory_resources, dq_mem>>
       ELSE LET index == deallocate_route(h.n)
                head_tag_ == m_node_memory_resources[index].m_head_tag
            IN /\ dq_mem' = [a \in (DOMAIN dq_mem) \cup {h.p} |->
                               IF a = h.p THEN ptr(head_tag_) ELSE dq_mem[a]]
               /\ m_node_memory_resources' =
                    [m_node_memory_resources EXCEPT
                       ![index].m_head_tag = PtrTag(h.p, tag(head_tag_))]
  /\ UNCHANGED <<sizeof_ptr, dq_chunks, dq_aborted>>
  /\ UNCHANGED <<listvars, ctorvars, poolvars>>

\* The pools of a specification that does not use them.
\* A NodeMemoryResource that was not constructed.
SizedUnused ==
  [state |-> "none", block_size |-> 0, partition_size |-> 0,
   m_head_tag |-> end_of_list, m_next |-> <<>>, front |-> NULL, chunks |-> 0,
   held |-> {}, op |-> "none", ret |-> NONE, calls_left |-> 0]

NmrUnused ==
  [state |-> "none", mpp_ |-> NULL, block_size_ |-> 0,
   pc |-> [t \in Threads |-> "idle"], block_size |-> [t \in Threads |-> 0],
   stored_block_size |-> [t \in Threads |-> 0], calls_left |-> 0]
MppUnused ==
  [state |-> "none", m_chunks |-> <<>>, m_add_block_mutex |-> 0,
   pc |-> [t \in Threads |-> "idle"], chunk |-> [t \in Threads |-> NULL],
   index |-> 0, mallocs |-> 0, host |-> {}, freed |-> <<>>, returned |-> {},
   held |-> {}, calls_left |-> 0]
NmpUnused ==
  [state |-> "none", pool_mutex_ |-> 0, free_list_ |-> NULL, blocks_ |-> <<>>,
   total_free_ |-> 0, free |-> <<>>, next_ |-> <<>>, chunk_free |-> <<>>,
   host |-> {}, freed |-> 0, held |-> <<>>, pc |-> [t \in Threads |-> "idle"],
   ptr |-> [t \in Threads |-> NULL], ret |-> NONE, calls_left |-> 0]

\* A PtrTag that is not looked at, and a caller without a plan.
PtrTagUnused ==
  [state |-> "none", p |-> NULL, t |-> 0, node_next |-> NULL, encoded |-> 0,
   next |-> 0, calls_left |-> 0]
LifoUnused ==
  [phase |-> "none", p |-> NULL, before |-> <<>>, calls |-> 0]

\* The classes modelled on their own, in a specification of another class.
ClassesUnused ==
  /\ sized = SizedUnused
  /\ nmr = NmrUnused
  /\ mpp = MppUnused
  /\ nmp = NmpUnused
  /\ ptrtag = PtrTagUnused
  /\ lifo = LifoUnused

PoolsUnused ==
  /\ reopened = FALSE
  /\ round_trip = [phase |-> "none", before |-> {}, got |-> {}, chunks |-> 0]
  /\ ClassesUnused

\* The MemoryMappedPool constructor of a specification that does not run it.
CtorUnused ==
  /\ file = [state |-> "absent", length |-> 0, zero |-> TRUE]
  /\ ctor = [pc |-> "done", error |-> "", file_size |-> 0, mode |-> "persistent",
             zero_init |-> FALSE, file_status |-> "absent", fd |-> NULL - 1,
             file_at_entry |-> [state |-> "absent", length |-> 0, zero |-> TRUE]]
  /\ open_fds = {}
  /\ mappings = {}

\* The DequeMemoryResource of a specification that does not use it.
DequeUnused ==
  /\ sizeof_ptr = 8
  /\ m_node_memory_resources =
       [index \in 0..(nmra_size - 1) |->
          [mpp_ |-> NULL, block_size_ |-> 0, m_head_tag |-> end_of_list]]
  /\ dq_mem = <<>>
  /\ dq_chunks = <<>>
  /\ dq_held = {}
  /\ dq_ret = NoDqRet
  /\ dq_aborted = FALSE
  /\ dq_calls_left = 0

\* The free lists of a specification that does not use them.
ListsUnused ==
  /\ m_head_tag = end_of_list
  /\ mem = <<>>
  /\ m_add_block_mutex = 0
  /\ pc = [t \in Threads |-> "idle"]
  /\ head_tag = [t \in Threads |-> 0]
  /\ new_head_tag = [t \in Threads |-> 0]
  /\ new_front_node = [t \in Threads |-> NULL]
  /\ chunk = [t \in Threads |-> NULL]
  /\ ret = NoRet
  /\ held = <<>>
  /\ chunks_given = 0
  /\ popped = [t \in Threads |-> FALSE]
  /\ calls_left = 0
  /\ mapped_base_ = NULL
  /\ mapped_size_ = 0
  /\ block_size_ = 0
  /\ crashed = FALSE
  /\ fresh = FALSE
  /\ alloc_log = <<>>

\* DequeMemoryResource::s_instance: default constructed buckets.
InitDeque ==
  /\ ListsUnused
  /\ sizeof_ptr \in {4, 8}
  /\ m_node_memory_resources =
       [index \in 0..(nmra_size - 1) |->
          [mpp_ |-> NULL, block_size_ |-> 0, m_head_tag |-> end_of_list]]
  /\ dq_mem = <<>>
  /\ dq_chunks = <<>>
  /\ dq_held = {}
  /\ dq_ret = NoDqRet
  /\ dq_aborted = FALSE
  /\ dq_calls_left = MaxDequeCalls
  /\ CtorUnused
  /\ PoolsUnused

NextDeque ==
  \/ Deque_init
  \/ \E n \in DequeSizes : Deque_allocate(n)
  \/ \E h \in dq_held : Deque_deallocate(h)

SpecDeque == InitDeque /\ [][NextDeque]_vars

\* size_to_index applied to the argument in dq_ret.
Deque_size_to_index ==
  /\ dq_ret.op = "argument"
  /\ dq_ret' = [dq_ret EXCEPT !.op = "size_to_index",
                              !.route = size_to_index(dq_ret.n)]
  /\ UNCHANGED <<sizeof_ptr, m_node_memory_resources, dq_mem, dq_chunks,
                 dq_held, dq_aborted, dq_calls_left>>
  /\ UNCHANGED <<listvars, ctorvars, poolvars>>

\* Every size a bucket serves, as the argument of size_to_index.
InitSizes ==
  /\ ListsUnused
  /\ sizeof_ptr \in {4, 8}
  /\ m_node_memory_resources =
       [index \in 0..(nmra_size - 1) |->
          [mpp_ |-> NULL, block_size_ |-> 0, m_head_tag |-> end_of_list]]
  /\ dq_mem = <<>>
  /\ dq_chunks = <<>>
  /\ dq_held = {}
  /\ dq_ret \in {[op |-> "argument", n |-> n, route |-> NONE, p |-> NONE] :
                  n \in 1..upper_size}
  /\ dq_aborted = FALSE
  /\ dq_calls_left = 0
  /\ CtorUnused
  /\ PoolsUnused

NextSizes == Deque_size_to_index

SpecSizes == InitSizes /\ [][NextSizes]_vars

-----------------------------------------------------------------------------
(* The constructor of MemoryMappedPool, one system call per step.          *)

\* The address mmap returned.
MappedBase == 16 * memory_page_size

\* The block sizes and file sizes the constructor of MemoryMappedPool accepts:
\* multiples of the page size.
BlockSizes == {k * memory_page_size : k \in 1..2}
FileSizes == {k * memory_page_size : k \in 1..MaxPages}

\* mapped_base_(MAP_FAILED): (void*)-1.
MAP_FAILED == NULL - 1

\* The modes of MemoryMappedPool::Mode.
Modes == {"persistent", "copy_on_write", "read_only"}

\* What fs::status can find at the path.
FileStates == {"absent", "directory", "unreadable", "readonly", "writable"}

\* The lengths of the file on disk and the file_size arguments that pass
\* ASSERT(file_size % memory_page_size() == 0).
FileLengths ==
  {0, memory_page_size, 2 * memory_page_size, 3 * memory_page_size,
   memory_page_size + memory_page_size \div 2}
FileSizeArgs == {0, memory_page_size, 2 * memory_page_size}

\* The file descriptor ::open returns.
NewFd == 3

\* file_exists, file_is_regular_file, is_readable, is_writable of a status.
file_exists(st) == st # "absent"
file_is_regular_file(st) == st \in {"unreadable", "readonly", "writable"}
is_readable(st) == st \in {"readonly", "writable"}
is_writable(st) == st = "writable"

\* A validation that lets copy_on_write create the file.
ValidationError_create_cow(st, a) ==
  IF file_exists(st) /\ (~file_is_regular_file(st) \/ ~is_readable(st))
    THEN "File exists but is not a readable regular file"
  ELSE IF ~file_exists(st)
    THEN IF a.file_size = 0 THEN "does not exist, and no size was provided"
         ELSE IF a.mode = "read_only" THEN "No such file"
         ELSE ""
  ELSE IF ~is_writable(st)
    THEN IF a.mode = "persistent" THEN "Persistent mode requested, not writable"
         ELSE IF a.zero_init THEN "Zero initialization requested for read-only file"
         ELSE ""
  ELSE ""

\* The string error of the constructor for status st and arguments a.
ValidationError(st, a) ==
  IF file_exists(st) /\ (~file_is_regular_file(st) \/ ~is_readable(st))
    THEN "File exists but is not a readable regular file"
  ELSE IF ~file_exists(st)
    THEN IF a.file_size = 0 THEN "does not exist, and no size was provided"
         ELSE IF a.mode = "read_only" THEN "No such file"
         ELSE IF a.mode = "copy_on_write" THEN "Copy-on-write was requested, does not exist"
         ELSE ""
  ELSE IF ~is_writable(st)
    THEN IF a.mode = "persistent" THEN "Persistent mode requested, not writable"
         ELSE IF a.zero_init THEN "Zero initialization requested for read-only file"
         ELSE ""
  ELSE ""

\* A size check that believes the file_size it is given.
ExistingSizeError_trusting(st_size, file_size) ==
  IF file_size = 0
    THEN IF st_size % memory_page_size # 0 THEN "not a multiple of the page size"
         ELSE ""
  ELSE ""

\* The error of the size checks on an existing file of st_size bytes.
ExistingSizeError(st_size, file_size) ==
  IF file_size = 0
    THEN IF st_size % memory_page_size # 0 THEN "not a multiple of the page size"
         ELSE ""
  ELSE IF st_size # file_size THEN "does not match the size of existing file"
  ELSE ""

\* A throw that leaves the descriptor open.
Throw_leaking(step) ==
  /\ ctor' = [ctor EXCEPT !.pc = "thrown", !.error = step]
  /\ open_fds' = open_fds

\* THROW_LALERT / THROW_LALERTE at a step; close_fd closes fd on the way out.
Throw(step) ==
  /\ ctor' = [ctor EXCEPT !.pc = "thrown", !.error = step]
  /\ open_fds' = open_fds \ {ctor.fd}

CtorOthers == <<m_add_block_mutex, pc, head_tag, new_head_tag, new_front_node,
                chunk, ret, held, chunks_given, popped, calls_left,
                block_size_, crashed, fresh, alloc_log>>

\* The ASSERT on mode and zero_init, fs::status, and the validation matrix.
ctor_validate ==
  /\ ctor.pc = "start"
  /\ IF ctor.mode = "read_only" /\ ctor.zero_init
       THEN /\ ctor' = [ctor EXCEPT !.pc = "aborted"]
            /\ UNCHANGED open_fds
       ELSE IF ValidationError(file.state, ctor) # ""
         THEN Throw("validation")
         ELSE /\ ctor' = [ctor EXCEPT !.pc = "open", !.file_status = file.state]
              /\ UNCHANGED open_fds
  /\ UNCHANGED <<file, mappings, m_head_tag, mapped_base_, mapped_size_>>
  /\ UNCHANGED <<mem, CtorOthers, dqvars, poolvars>>

\* ::open: with O_CREAT | O_RDWR when the file did not exist (another process
\* may have created it since), else with O_RDONLY or O_RDWR; only the
\* result of the creating open is tested.
ctor_open ==
  /\ ctor.pc = "open"
  /\ IF ~file_exists(ctor.file_status)
       THEN \/ /\ Throw("open")
               /\ UNCHANGED file
            \/ /\ \E len \in {0, memory_page_size} :
                    \E z \in (IF len = 0 THEN {TRUE} ELSE BOOLEAN) :
                      file' = [state |-> "writable", length |-> len, zero |-> z]
               /\ ctor' = [ctor EXCEPT !.pc = "fstat", !.fd = NewFd]
               /\ open_fds' = open_fds \cup {NewFd}
       ELSE \/ /\ ctor' = [ctor EXCEPT !.pc = "fstat", !.fd = NewFd]
               /\ open_fds' = open_fds \cup {NewFd}
               /\ UNCHANGED file
            \/ /\ ctor' = [ctor EXCEPT !.pc = "fstat", !.fd = NULL - 1]
               /\ UNCHANGED <<open_fds, file>>
  /\ UNCHANGED <<mappings, m_head_tag, mapped_base_, mapped_size_>>
  /\ UNCHANGED <<mem, CtorOthers, dqvars, poolvars>>

\* ::fstat and the tests of st_size; the existing file sets mapped_size_.
ctor_fstat ==
  /\ ctor.pc = "fstat"
  /\ \/ /\ Throw("fstat")
        /\ UNCHANGED mapped_size_
     \/ /\ ctor.fd \in open_fds
        /\ IF ~file_exists(ctor.file_status)
             THEN IF file.length # 0
                    THEN Throw("size") /\ UNCHANGED mapped_size_
                    ELSE /\ ctor' = [ctor EXCEPT !.pc = "fallocate"]
                         /\ UNCHANGED <<open_fds, mapped_size_>>
             ELSE IF ExistingSizeError(file.length, ctor.file_size) # ""
                    THEN Throw("size") /\ UNCHANGED mapped_size_
                    ELSE /\ mapped_size_' = IF ctor.file_size = 0 THEN file.length
                                            ELSE ctor.file_size
                         /\ ctor' = [ctor EXCEPT !.pc =
                                       IF ctor.mode = "persistent" /\ ctor.zero_init
                                         THEN "zero_range" ELSE "mmap"]
                         /\ UNCHANGED open_fds
  /\ UNCHANGED <<file, mappings, m_head_tag, mapped_base_>>
  /\ UNCHANGED <<mem, CtorOthers, dqvars, poolvars>>

\* ::fallocate(fd, 0, 0, file_size) on the file just created.
ctor_fallocate ==
  /\ ctor.pc = "fallocate"
  /\ \/ /\ Throw("fallocate")
        /\ UNCHANGED <<file, mapped_size_>>
     \/ /\ file' = [file EXCEPT !.length = ctor.file_size]
        /\ mapped_size_' = ctor.file_size
        /\ ctor' = [ctor EXCEPT !.pc = "mmap"]
        /\ UNCHANGED open_fds
  /\ UNCHANGED <<mappings, m_head_tag, mapped_base_>>
  /\ UNCHANGED <<mem, CtorOthers, dqvars, poolvars>>

\* ::fallocate(fd, FALLOC_FL_ZERO_RANGE, 0, mapped_size_): the whole file
\* reads as zeroes afterwards.
ctor_zero_range ==
  /\ ctor.pc = "zero_range"
  /\ \/ /\ Throw("zero_range")
        /\ UNCHANGED file
     \/ /\ ctor' = [ctor EXCEPT !.pc = "mmap"]
        /\ file' = [file EXCEPT !.zero = TRUE]
        /\ UNCHANGED open_fds
  /\ UNCHANGED <<mappings, m_head_tag, mapped_base_, mapped_size_>>
  /\ UNCHANGED <<mem, CtorOthers, dqvars, poolvars>>

\* The first word of every page of a mapping of size bytes of a file: null
\* in a file of zeroes, else whatever the file holds.
FileWords(size, zero) ==
  [{MappedBase + k * memory_page_size : k \in 0..((size \div memory_page_size) - 1)}
     -> IF zero THEN {NULL} ELSE {NULL, MappedBase}]

\* mapped_base_ = ::mmap(nullptr, mapped_size_, prot, flags, fd, 0); a
\* mapping of no bytes always fails.  The mapped range reads as the file.
ctor_mmap ==
  /\ ctor.pc = "mmap"
  /\ \/ /\ Throw("mmap")
        /\ mapped_base_' = MAP_FAILED
        /\ UNCHANGED <<mappings, mem>>
     \/ /\ mapped_size_ > 0
        /\ mapped_base_' = MappedBase
        /\ mappings' = mappings \cup {[base |-> MappedBase, size |-> mapped_size_]}
        /\ mem' \in FileWords(mapped_size_, file.zero)
        /\ ctor' = [ctor EXCEPT !.pc = "initialize"]
        /\ UNCHANGED open_fds
  /\ UNCHANGED <<file, m_head_tag, mapped_size_>>
  /\ UNCHANGED <<CtorOthers, dqvars, poolvars>>

\* mss_.initialize(mapped_base_), and close_fd at the end of the scope.
ctor_initialize ==
  /\ ctor.pc = "initialize"
  /\ m_head_tag = end_of_list
  /\ m_head_tag' = encode(mapped_base_, 0)
  /\ open_fds' = open_fds \ {ctor.fd}
  /\ ctor' = [ctor EXCEPT !.pc = "done"]
  /\ UNCHANGED <<file, mappings, mapped_base_, mapped_size_>>
  /\ UNCHANGED <<mem, CtorOthers, dqvars, poolvars>>

\* Entry of the constructor, after the member initialisers and the ASSERTs
\* on block_size and file_size: any file, any arguments.
InitCtor ==
  /\ m_head_tag = end_of_list
  /\ mem = <<>>
  /\ m_add_block_mutex = 0
  /\ pc = [t \in Threads |-> "idle"]
  /\ head_tag = [t \in Threads |-> 0]
  /\ new_head_tag = [t \in Threads |-> 0]
  /\ new_front_node = [t \in Threads |-> NULL]
  /\ chunk = [t \in Threads |-> NULL]
  /\ ret = NoRet
  /\ held = <<>>
  /\ chunks_given = 0
  /\ popped = [t \in Threads |-> FALSE]
  /\ calls_left = 0
  /\ mapped_base_ = MAP_FAILED
  /\ mapped_size_ = NONE
  /\ block_size_ \in BlockSizes
  /\ crashed = FALSE
  /\ fresh = FALSE
  /\ alloc_log = <<>>
  /\ DequeUnused
  /\ PoolsUnused
  /\ file \in {[state |-> s, length |-> l, zero |-> z] :
                 s \in FileStates, l \in FileLengths, z \in BOOLEAN}
  /\ ~file_is_regular_file(file.state) => file.length = 0
  /\ file.length = 0 => file.zero
  /\ ctor \in {[pc |-> "start", error |-> "", file_size |-> fs, mode |-> m,
                zero_init |-> z, file_status |-> file.state, fd |-> NULL - 1,
                file_at_entry |-> file] :
                 fs \in FileSizeArgs, m \in Modes, z \in BOOLEAN}
  /\ open_fds = {}
  /\ mappings = {}

NextCtor ==
  \/ ctor_validate
  \/ ctor_open
  \/ ctor_fstat
  \/ ctor_fallocate
  \/ ctor_zero_range
  \/ ctor_mmap
  \/ ctor_initialize

SpecCtor == InitCtor /\ [][NextCtor]_vars

-----------------------------------------------------------------------------
(* The anonymous free list of a NodeMemoryResource under two threads.      *)

Init ==
  /\ m_head_tag = end_of_list
  /\ mem = [a \in SSSBlocks |-> NULL]
  /\ m_add_block_mutex = 0
  /\ pc = [t \in Threads |-> "idle"]
  /\ head_tag = [t \in Threads |-> 0]
  /\ new_head_tag = [t \in Threads |-> 0]
  /\ new_front_node = [t \in Threads |-> NULL]
  /\ chunk = [t \in Threads |-> NULL]
  /\ ret = NoRet
  /\ held = [a \in SSSBlocks |-> 0]
  /\ chunks_given = 0
  /\ popped = [t \in Threads |-> FALSE]
  /\ calls_left = NONE
  /\ mapped_base_ = NULL
  /\ mapped_size_ = 0
  /\ block_size_ = 0
  /\ crashed = FALSE
  /\ fresh = FALSE
  /\ alloc_log = <<>>
  /\ DequeUnused
  /\ CtorUnused
  /\ PoolsUnused

Next ==
  \E t \in Threads :
    \/ allocate(t)
    \/ allocate_again(t)
    \/ allocate_next(t)
    \/ allocate_cas_ok(t)
    \/ allocate_cas_fail(t)
    \/ tam_lock(t)
    \/ try_allocate_more(t)
    \/ refill_fail(t)
    \/ refill_chunk(t)
    \/ add_block(t)
    \/ add_block_splice(t)
    \/ add_block_cas_ok(t)
    \/ add_block_cas_fail(t)
    \/ \E p \in DOMAIN held : deallocate(t, p)
    \/ deallocate_write(t)
    \/ deallocate_cas_ok(t)
    \/ deallocate_cas_fail(t)

Spec == Init /\ [][Next]_vars

\* The same threads, making MaxCalls calls between them.
InitCalls ==
  /\ m_head_tag = end_of_list
  /\ mem = [a \in SSSBlocks |-> NULL]
  /\ m_add_block_mutex = 0
  /\ pc = [t \in Threads |-> "idle"]
  /\ head_tag = [t \in Threads |-> 0]
  /\ new_head_tag = [t \in Threads |-> 0]
  /\ new_front_node = [t \in Threads |-> NULL]
  /\ chunk = [t \in Threads |-> NULL]
  /\ ret = NoRet
  /\ held = [a \in SSSBlocks |-> 0]
  /\ chunks_given = 0
  /\ popped = [t \in Threads |-> FALSE]
  /\ calls_left = MaxCalls
  /\ mapped_base_ = NULL
  /\ mapped_size_ = 0
  /\ block_size_ = 0
  /\ crashed = FALSE
  /\ fresh = FALSE
  /\ alloc_log = <<>>
  /\ DequeUnused
  /\ CtorUnused
  /\ PoolsUnused

SpecCalls == InitCalls /\ [][Next]_vars

-----------------------------------------------------------------------------
(* MappedSegregatedStorage as MemoryMappedPool drives it.                  *)

\* The page-aligned words of the mapping and of the memory after it.
MappedWords(size) ==
  {MappedBase + k * memory_page_size : k \in 0..((size \div memory_page_size) - 1)}
WindowEnd == MappedBase + (MaxPages + 2) * memory_page_size
Window ==
  {MappedBase + k * memory_page_size : k \in 0..(MaxPages + 2)}

InMapping(a) == mapped_base_ <= a /\ a < mapped_base_ + mapped_size_

\* What a load of the word at address a can yield: inside the mapping the
\* word stored there; outside of it (undefined behaviour) any word of the
\* memory that happens to be there.
ForeignWords == {NULL, MappedBase}
WordsAt(a) == IF InMapping(a) THEN {mem[a]} ELSE ForeignWords

\* An allocate that takes a null next_ for the end of the list.
MappedNewHead_no_tail(h, w) == PtrTag(w, tag(h) + 1)

\* new_head_tag of MappedSegregatedStorage::allocate for head_tag h whose
\* front node holds the word w in next_.
MappedNewHead(h, w) ==
  LET nh == PtrTag(w, tag(h) + 1)
      second_node == ptr(h) + block_size_
  IN IF ptr(nh) = NULL
       THEN IF second_node = mapped_base_ + mapped_size_
              THEN end_of_list
              ELSE encode(second_node, tag(h) + 1)
       ELSE nh

\* The log of the results of allocate on a list nobody deallocated to yet.
Logged(v) ==
  IF fresh /\ Len(alloc_log) <= mapped_size_ \div block_size_
    THEN Append(alloc_log, v)
    ELSE alloc_log

\* PtrTag head_tag(m_head_tag.load(acquire)); while (head_tag != end_of_list)
\* ... return nullptr;
MappedLoadHead(t) ==
  /\ IF m_head_tag # end_of_list
       THEN /\ head_tag' = [head_tag EXCEPT ![t] = m_head_tag]
            /\ new_head_tag' = [new_head_tag EXCEPT ![t] = 0]
            /\ pc' = [pc EXCEPT ![t] = "m_next"]
            /\ ret' = NoRet
            /\ UNCHANGED <<new_front_node, alloc_log>>
       ELSE /\ Return(t)
            /\ ret' = [thread |-> t, value |-> NULL]
            /\ alloc_log' = Logged(NULL)
  /\ UNCHANGED <<m_head_tag, mem, held, popped>>
  /\ UNCHANGED <<m_add_block_mutex, chunk, chunks_given>>
  /\ UNCHANGED <<mapped_base_, mapped_size_, block_size_, crashed, fresh, restvars>>

\* A caller enters MemoryMappedPool::allocate.
mapped_allocate(t) ==
  /\ pc[t] = "idle"
  /\ ~crashed
  /\ CountCall
  /\ MappedLoadHead(t)

\* new_head_tag = head_tag.next() and the step to the next block of the file.
mapped_allocate_next(t) ==
  /\ pc[t] = "m_next"
  /\ ~crashed
  /\ \E w \in WordsAt(ptr(head_tag[t])) :
       /\ ptr(MappedNewHead(head_tag[t], w)) <= WindowEnd
       /\ new_head_tag' = [new_head_tag EXCEPT ![t] = MappedNewHead(head_tag[t], w)]
  /\ pc' = [pc EXCEPT ![t] = "m_cas"]
  /\ ret' = NoRet
  /\ UNCHANGED <<m_head_tag, mem, head_tag, new_front_node, held, popped>>
  /\ UNCHANGED <<m_add_block_mutex, chunk, chunks_given, calls_left>>
  /\ UNCHANGED <<mapvars, restvars>>

\* The compare-exchange of the mapped allocate succeeds.
mapped_allocate_cas_ok(t) ==
  /\ pc[t] = "m_cas"
  /\ ~crashed
  /\ m_head_tag = head_tag[t]
  /\ m_head_tag' = new_head_tag[t]
  /\ held' = Hold(ptr(head_tag[t]))
  /\ ret' = [thread |-> t, value |-> ptr(head_tag[t])]
  /\ alloc_log' = Logged(ptr(head_tag[t]))
  /\ Return(t)
  /\ UNCHANGED <<mem, popped>>
  /\ UNCHANGED <<m_add_block_mutex, chunk, chunks_given, calls_left>>
  /\ UNCHANGED <<mapped_base_, mapped_size_, block_size_, crashed, fresh, restvars>>

\* The compare-exchange of the mapped allocate fails: the loop runs again
\* with the value reloaded.
mapped_allocate_cas_fail(t) ==
  /\ pc[t] = "m_cas"
  /\ ~crashed
  /\ MappedLoadHead(t)
  /\ UNCHANGED calls_left

\* A load or store of next_ outside the mapping faults.
segfault(t) ==
  /\ ~crashed
  /\ \/ pc[t] = "m_next" /\ ~InMapping(ptr(head_tag[t]))
     \/ pc[t] = "d_write" /\ ~InMapping(new_front_node[t])
  /\ mapped_size_ > 0
  /\ crashed' = TRUE
  /\ ret' = NoRet
  /\ UNCHANGED <<m_head_tag, mem, pc, head_tag, new_head_tag, new_front_node,
                 held, popped>>
  /\ UNCHANGED <<m_add_block_mutex, chunk, chunks_given, calls_left>>
  /\ UNCHANGED <<mapped_base_, mapped_size_, block_size_, fresh, alloc_log, restvars>>

\* After the constructor of MemoryMappedPool on a file of zeroes:
\* mss_.initialize(mapped_base_).
InitMapped ==
  /\ mapped_base_ = MappedBase
  /\ block_size_ \in BlockSizes
  /\ mapped_size_ \in FileSizes
  /\ m_head_tag = encode(mapped_base_, 0)
  /\ mem = [a \in MappedWords(mapped_size_) |-> NULL]
  /\ held = [a \in Window |-> 0]
  /\ m_add_block_mutex = 0
  /\ pc = [t \in Threads |-> "idle"]
  /\ head_tag = [t \in Threads |-> 0]
  /\ new_head_tag = [t \in Threads |-> 0]
  /\ new_front_node = [t \in Threads |-> NULL]
  /\ chunk = [t \in Threads |-> NULL]
  /\ ret = NoRet
  /\ chunks_given = 0
  /\ popped = [t \in Threads |-> FALSE]
  /\ calls_left = MaxCalls
  /\ crashed = FALSE
  /\ fresh = TRUE
  /\ alloc_log = <<>>
  /\ DequeUnused
  /\ CtorUnused
  /\ PoolsUnused

\* One caller at a time uses the mapped pool, for MaxCalls calls.
MappedCaller == CHOOSE t \in Threads : \A u \in Threads : t <= u

NextMapped ==
  \/ mapped_allocate(MappedCaller)
  \/ mapped_allocate_next(MappedCaller)
  \/ mapped_allocate_cas_ok(MappedCaller)
  \/ mapped_allocate_cas_fail(MappedCaller)
  \/ \E p \in DOMAIN held : deallocate(MappedCaller, p)
  \/ deallocate_write(MappedCaller)
  \/ deallocate_cas_ok(MappedCaller)
  \/ deallocate_cas_fail(MappedCaller)
  \/ segfault(MappedCaller)

SpecMapped == InitMapped /\ [][NextMapped]_vars

\* ~MemoryMappedPool (munmap) and then the constructor with the same
\* arguments, persistent and without zero_init, on the file as the first
\* pool left it, mapped at the same address: the words of the file are
\* kept, the new pool has handed out nothing, and
\* mss_.initialize(mapped_base_) makes base the head with tag 0.  The
\* caller goes on with allocate calls only.
MemoryMappedPool_reopen ==
  /\ ~reopened
  /\ ~crashed
  /\ \A t \in Threads : pc[t] = "idle"
  /\ reopened' = TRUE
  /\ m_head_tag' = encode(mapped_base_, 0)
  /\ held' = [a \in DOMAIN held |-> 0]
  /\ fresh' = TRUE
  /\ alloc_log' = <<>>
  /\ calls_left' = (mapped_size_ \div block_size_) + 1
  /\ ret' = NoRet
  /\ UNCHANGED classvars
  /\ UNCHANGED <<mem, m_add_block_mutex, pc, head_tag, new_head_tag,
                 new_front_node, chunk, chunks_given, popped>>
  /\ UNCHANGED <<mapped_base_, mapped_size_, block_size_, crashed>>
  /\ UNCHANGED <<dqvars, ctorvars, round_trip>>

NextReopen ==
  \/ mapped_allocate(MappedCaller)
  \/ mapped_allocate_next(MappedCaller)
  \/ mapped_allocate_cas_ok(MappedCaller)
  \/ mapped_allocate_cas_fail(MappedCaller)
  \/ \E p \in DOMAIN held : ~reopened /\ deallocate(MappedCaller, p)
  \/ deallocate_write(MappedCaller)
  \/ deallocate_cas_ok(MappedCaller)
  \/ deallocate_cas_fail(MappedCaller)
  \/ segfault(MappedCaller)
  \/ MemoryMappedPool_reopen

\* A persistent MemoryMappedPool that is used, destroyed and constructed again.
SpecReopen == InitMapped /\ [][NextReopen]_vars

-----------------------------------------------------------------------------
(* One caller of NodeMemoryResource who, after some calls, allocates some  *)
(* blocks, deallocates all of them in any order, and allocates as many     *)
(* again.                                                                  *)

\* Number of calls the caller makes before the round trip.
MaxWarmUp == 2

SingleCaller == MappedCaller

\* The blocks somebody holds.
HeldBlocks == {p \in DOMAIN held : held[p] > 0}

RoundTripOthers == <<m_head_tag, mem, m_add_block_mutex, pc, head_tag,
                     new_head_tag, new_front_node, chunk, held, chunks_given,
                     popped>>

\* The caller starts the round trip with up to one allocate call more than
\* the pool has blocks.
round_trip_allocate ==
  /\ round_trip.phase = "before"
  /\ pc[SingleCaller] = "idle"
  /\ round_trip' = [round_trip EXCEPT !.phase = "allocate", !.before = HeldBlocks]
  /\ calls_left' \in 1..(Cardinality(SSSBlocks) + 1)
  /\ ret' = NoRet
  /\ UNCHANGED <<RoundTripOthers, mapvars, dqvars, ctorvars, reopened, classvars>>

\* The caller has made its allocate calls and turns to deallocate what they
\* returned.
round_trip_deallocate ==
  /\ round_trip.phase = "allocate"
  /\ pc[SingleCaller] = "idle"
  /\ calls_left = 0
  /\ HeldBlocks # round_trip.before
  /\ round_trip' = [round_trip EXCEPT !.phase = "deallocate",
                                      !.got = HeldBlocks \ round_trip.before,
                                      !.chunks = chunks_given]
  /\ calls_left' = Cardinality(HeldBlocks \ round_trip.before)
  /\ ret' = NoRet
  /\ UNCHANGED <<RoundTripOthers, mapvars, dqvars, ctorvars, reopened, classvars>>

\* The caller has given every block back and turns to allocate again.
round_trip_again ==
  /\ round_trip.phase = "deallocate"
  /\ pc[SingleCaller] = "idle"
  /\ calls_left = 0
  /\ round_trip' = [round_trip EXCEPT !.phase = "again"]
  /\ calls_left' = Cardinality(round_trip.got)
  /\ ret' = NoRet
  /\ UNCHANGED <<RoundTripOthers, mapvars, dqvars, ctorvars, reopened, classvars>>

\* The caller first makes up to MaxWarmUp calls of any kind.
InitRoundTrip ==
  /\ m_head_tag = end_of_list
  /\ mem = [a \in SSSBlocks |-> NULL]
  /\ m_add_block_mutex = 0
  /\ pc = [t \in Threads |-> "idle"]
  /\ head_tag = [t \in Threads |-> 0]
  /\ new_head_tag = [t \in Threads |-> 0]
  /\ new_front_node = [t \in Threads |-> NULL]
  /\ chunk = [t \in Threads |-> NULL]
  /\ ret = NoRet
  /\ held = [a \in SSSBlocks |-> 0]
  /\ chunks_given = 0
  /\ popped = [t \in Threads |-> FALSE]
  /\ calls_left \in 0..MaxWarmUp
  /\ mapped_base_ = NULL
  /\ mapped_size_ = 0
  /\ block_size_ = 0
  /\ crashed = FALSE
  /\ fresh = FALSE
  /\ alloc_log = <<>>
  /\ DequeUnused
  /\ CtorUnused
  /\ reopened = FALSE
  /\ round_trip = [phase |-> "before", before |-> {}, got |-> {}, chunks |-> 0]
  /\ ClassesUnused

NextRoundTrip ==
  \/ round_trip.phase # "deallocate" /\ allocate(SingleCaller)
  \/ allocate_again(SingleCaller)
  \/ allocate_next(SingleCaller)
  \/ allocate_cas_ok(SingleCaller)
  \/ allocate_cas_fail(SingleCaller)
  \/ tam_lock(SingleCaller)
  \/ try_allocate_more(SingleCaller)
  \/ refill_fail(SingleCaller)
  \/ refill_chunk(SingleCaller)
  \/ add_block(SingleCaller)
  \/ add_block_splice(SingleCaller)
  \/ add_block_cas_ok(SingleCaller)
  \/ add_block_cas_fail(SingleCaller)
  \/ \E p \in DOMAIN held :
       /\ \/ round_trip.phase = "before"
          \/ round_trip.phase = "deallocate" /\ p \in round_trip.got
       /\ deallocate(SingleCaller, p)
  \/ deallocate_write(SingleCaller)
  \/ deallocate_cas_ok(SingleCaller)
  \/ deallocate_cas_fail(SingleCaller)
  \/ round_trip_allocate
  \/ round_trip_deallocate
  \/ round_trip_again

SpecRoundTrip == InitRoundTrip /\ [][NextRoundTrip]_vars

-----------------------------------------------------------------------------
(* A NodeMemoryResource of any block size on a MemoryPagePool of any block *)
(* size, used by one caller: every call is one step.                       *)

\* Largest block size of the MemoryPagePool, in pages.
MaxPoolPages == 2

\* Number of chunks the MemoryPagePool can supply before it fails.
MaxSizedChunks == 2

\* Number of calls the caller makes.
MaxSizedCalls == 4

\* The block sizes MemoryPagePool accepts.
PoolBlockSizes == {k * memory_page_size : k \in 1..MaxPoolPages}

\* The sizes of the buckets of DequeMemoryResource.
BucketSizes == {index_to_size(i) : i \in 0..(nmra_size - 1)}

\* The block sizes given to the NodeMemoryResource: those of the buckets
\* and two sizes of the user's choice.
PartitionSizes == BucketSizes \cup {1366, 2048}

\* The chunks mpp_->allocate() returns, in order: page aligned.
SizedChunkBase(c) == c * (MaxPoolPages + 1) * memory_page_size

\* add_block: number_of_partitions = block_size / partition_size.
sized_number_of_partitions(block_size, partition_size) ==
  block_size \div partition_size

\* add_block: the nodes the do-while loop visits, from last_ptr down to
\* first_ptr.
SizedPartitions(block, block_size, partition_size) ==
  {block + k * partition_size :
     k \in 0..(sized_number_of_partitions(block_size, partition_size) - 1)}

\* An add_block that ends its chunk with a null pointer.
sized_add_block_dropping(s, block) ==
  LET parts == SizedPartitions(block, s.block_size, s.partition_size)
  IN [s EXCEPT
        !.m_next = [a \in (DOMAIN s.m_next) \cup parts |->
                      IF a \notin parts THEN s.m_next[a]
                      ELSE IF a + s.partition_size \in parts
                        THEN a + s.partition_size
                      ELSE NULL],
        !.m_head_tag = PtrTag(block, 0),
        !.front = block,
        !.chunks = s.chunks + 1]

\* add_block once its ASSERT has passed: every partition but the last is
\* linked to the one after it, the last one to head_tag.ptr(), and
\* new_head_tag (first_node, 0) replaces the head.
sized_add_block(s, block) ==
  LET parts == SizedPartitions(block, s.block_size, s.partition_size)
      sized_last_ptr ==
        block + (sized_number_of_partitions(s.block_size, s.partition_size) - 1)
                  * s.partition_size
  IN [s EXCEPT
        !.m_next = [a \in (DOMAIN s.m_next) \cup parts |->
                      IF a \notin parts THEN s.m_next[a]
                      ELSE IF a = sized_last_ptr THEN ptr(s.m_head_tag)
                      ELSE a + s.partition_size],
        !.m_head_tag = PtrTag(block, 0),
        !.front = block,
        !.chunks = s.chunks + 1]

\* SimpleSegregatedStorageBase::allocate on a list that is not empty.  A
\* head whose pointer part is no node makes next() read m_next of memory
\* that holds none: the call has no defined outcome.
sized_pop(s) ==
  LET front_node == ptr(s.m_head_tag)
  IN IF front_node \notin DOMAIN s.m_next
       THEN [s EXCEPT !.state = "undefined", !.ret = front_node]
       ELSE [s EXCEPT !.m_head_tag = next(s.m_head_tag, s.m_next),
                      !.front = s.m_next[front_node],
                      !.held = s.held \cup {front_node},
                      !.ret = front_node]

\* SimpleSegregatedStorageBase::deallocate.
sized_push(s, p) ==
  [s EXCEPT !.m_next = [s.m_next EXCEPT ![p] = ptr(s.m_head_tag)],
            !.m_head_tag = PtrTag(p, tag(s.m_head_tag)),
            !.front = p,
            !.held = s.held \ {p},
            !.ret = NONE]

SizedCall(s, op) ==
  [s EXCEPT !.op = op, !.ret = NONE, !.calls_left = s.calls_left - 1]

SizedOthers == <<listvars, dqvars, ctorvars, reopened, round_trip, nmr, mpp, nmp,
                 ptrtag, lifo>>

\* NodeMemoryResource::allocate: a pop, after a refill when the list is
\* empty.
NodeMemoryResource_sized_allocate ==
  /\ sized.state = "ready"
  /\ sized.calls_left > 0
  /\ LET s == SizedCall(sized, "allocate")
     IN sized' =
          IF s.m_head_tag # end_of_list THEN sized_pop(s)
          ELSE IF s.chunks = MaxSizedChunks THEN [s EXCEPT !.ret = NULL]
          ELSE IF sized_number_of_partitions(s.block_size, s.partition_size) > 1
            THEN sized_pop(sized_add_block(s, SizedChunkBase(s.chunks + 1)))
          ELSE [s EXCEPT !.state = "aborted", !.chunks = s.chunks + 1]
  /\ UNCHANGED SizedOthers

\* NodeMemoryResource::deallocate of a pointer allocate returned.
NodeMemoryResource_sized_deallocate(p) ==
  /\ sized.state = "ready"
  /\ sized.calls_left > 0
  /\ p \in sized.held
  /\ sized' = sized_push(SizedCall(sized, "deallocate"), p)
  /\ UNCHANGED SizedOthers

\* SimpleSegregatedStorage::add_block called with a chunk of the pool, while
\* no other call runs.
SimpleSegregatedStorage_add_block ==
  /\ sized.state = "ready"
  /\ sized.calls_left > 0
  /\ sized.chunks < MaxSizedChunks
  /\ LET s == SizedCall(sized, "add_block")
     IN sized' =
          IF sized_number_of_partitions(s.block_size, s.partition_size) > 1
            THEN sized_add_block(s, SizedChunkBase(s.chunks + 1))
          ELSE [s EXCEPT !.state = "aborted", !.chunks = s.chunks + 1]
  /\ UNCHANGED SizedOthers

InitSized ==
  /\ ListsUnused
  /\ sizeof_ptr \in {4, 8}
  /\ m_node_memory_resources =
       [index \in 0..(nmra_size - 1) |->
          [mpp_ |-> NULL, block_size_ |-> 0, m_head_tag |-> end_of_list]]
  /\ dq_mem = <<>>
  /\ dq_chunks = <<>>
  /\ dq_held = {}
  /\ dq_ret = NoDqRet
  /\ dq_aborted = FALSE
  /\ dq_calls_left = 0
  /\ CtorUnused
  /\ reopened = FALSE
  /\ round_trip = [phase |-> "none", before |-> {}, got |-> {}, chunks |-> 0]
  /\ ptrtag = PtrTagUnused
  /\ lifo = LifoUnused
  /\ \E block_size \in PoolBlockSizes, partition_size \in PartitionSizes :
       sized = [SizedUnused EXCEPT !.state = "ready",
                                   !.block_size = block_size,
                                   !.partition_size = partition_size,
                                   !.calls_left = MaxSizedCalls]
  /\ nmr = NmrUnused
  /\ mpp = MppUnused
  /\ nmp = NmpUnused

NextSized ==
  \/ NodeMemoryResource_sized_allocate
  \/ \E p \in sized.held : NodeMemoryResource_sized_deallocate(p)
  \/ SimpleSegregatedStorage_add_block

SpecSized == InitSized /\ [][NextSized]_vars

-----------------------------------------------------------------------------
(* NodeMemoryResource::block_size_ under two threads: init, and allocate   *)
(* with its load of block_size_ and its store as separate steps.           *)

\* Number of calls the threads make on the NodeMemoryResource.
MaxNmrCalls == 4

\* The block sizes the callers pass.
NmrSizes == {40, 48}

\* The MemoryPagePool the resource is given.
NmrPool == 1

NmrOthers == <<listvars, dqvars, ctorvars, reopened, round_trip, sized, mpp, nmp,
                 ptrtag, lifo>>

NmrCall(n, t, position) ==
  [n EXCEPT !.pc[t] = position, !.calls_left = n.calls_left - 1]

\* init(mpp_ptr, block_size): ASSERT(mpp_ == nullptr), then both members
\* are assigned.
NodeMemoryResource_init(t, block_size) ==
  /\ nmr.state = "ready"
  /\ nmr.pc[t] = "idle"
  /\ nmr.calls_left > 0
  /\ nmr' = IF nmr.mpp_ # NULL
              THEN [nmr EXCEPT !.state = "aborted"]
              ELSE [NmrCall(nmr, t, "idle") EXCEPT !.mpp_ = NmrPool,
                                                   !.block_size_ = block_size]
  /\ UNCHANGED NmrOthers

\* allocate(block_size) up to the test of stored_block_size.
nmr_allocate(t, block_size) ==
  /\ nmr.state = "ready"
  /\ nmr.pc[t] = "idle"
  /\ nmr.calls_left > 0
  /\ nmr' = [NmrCall(nmr, t, IF nmr.block_size_ = 0 THEN "store" ELSE "sss")
               EXCEPT !.block_size[t] = block_size,
                      !.stored_block_size[t] = nmr.block_size_]
  /\ UNCHANGED NmrOthers

\* allocate: ASSERT(mpp_ != nullptr); block_size_.store(block_size).
nmr_allocate_store(t) ==
  /\ nmr.state = "ready"
  /\ nmr.pc[t] = "store"
  /\ nmr' = IF nmr.mpp_ = NULL
              THEN [nmr EXCEPT !.state = "aborted"]
              ELSE [nmr EXCEPT !.block_size_ = nmr.block_size[t],
                               !.stored_block_size[t] = nmr.block_size[t],
                               !.pc[t] = "sss"]
  /\ UNCHANGED NmrOthers

\* allocate: sss_.allocate(...) with the lambda holding stored_block_size.
nmr_allocate_sss(t) ==
  /\ nmr.state = "ready"
  /\ nmr.pc[t] = "sss"
  /\ nmr' = [nmr EXCEPT !.pc[t] = "idle", !.block_size[t] = 0,
                        !.stored_block_size[t] = 0]
  /\ UNCHANGED NmrOthers

\* deallocate(ptr): sss_.deallocate(ptr).
nmr_deallocate(t) ==
  /\ nmr.state = "ready"
  /\ nmr.pc[t] = "idle"
  /\ nmr.calls_left > 0
  /\ nmr' = NmrCall(nmr, t, "idle")
  /\ UNCHANGED NmrOthers

\* The resource after either constructor.
InitBlockSize ==
  /\ ListsUnused
  /\ DequeUnused
  /\ CtorUnused
  /\ reopened = FALSE
  /\ round_trip = [phase |-> "none", before |-> {}, got |-> {}, chunks |-> 0]
  /\ ptrtag = PtrTagUnused
  /\ lifo = LifoUnused
  /\ sized = SizedUnused
  /\ \/ nmr = [NmrUnused EXCEPT !.state = "ready", !.calls_left = MaxNmrCalls]
     \/ \E block_size \in {0} \cup NmrSizes :
          nmr = [NmrUnused EXCEPT !.state = "ready", !.mpp_ = NmrPool,
                                  !.block_size_ = block_size,
                                  !.calls_left = MaxNmrCalls]
  /\ mpp = MppUnused
  /\ nmp = NmpUnused

NextBlockSize ==
  \E t \in Threads :
    \/ \E block_size \in {0} \cup NmrSizes : NodeMemoryResource_init(t, block_size)
    \/ \E block_size \in NmrSizes : nmr_allocate(t, block_size)
    \/ nmr_allocate_store(t)
    \/ nmr_allocate_sss(t)
    \/ nmr_deallocate(t)

SpecBlockSize == InitBlockSize /\ [][NextBlockSize]_vars

-----------------------------------------------------------------------------
(* MemoryPagePool: the chunks it gets from the host, kept in m_chunks, and *)
(* release().  The host is the set of chunks malloc'ed and not yet freed.  *)

\* Number of chunks the host can supply.
MaxHostChunks == 3

\* Number of allocate / deallocate calls the threads make on the pool.
MaxMppCalls == 4

MppOthers == <<listvars, dqvars, ctorvars, reopened, round_trip, sized, nmr, nmp,
                 ptrtag, lifo>>

\* allocate(): a chunk that was given back is used again, or a new one
\* comes from the host, which happens outside the mutex.
mpp_allocate(t) ==
  /\ mpp.state = "ready"
  /\ mpp.pc[t] = "idle"
  /\ mpp.calls_left > 0
  /\ \/ \E c \in mpp.returned :
          mpp' = [mpp EXCEPT !.returned = mpp.returned \ {c},
                             !.held = mpp.held \cup {c},
                             !.calls_left = mpp.calls_left - 1]
     \/ /\ mpp.mallocs < MaxHostChunks
        /\ mpp' = [mpp EXCEPT !.mallocs = mpp.mallocs + 1,
                              !.host = mpp.host \cup {mpp.mallocs + 1},
                              !.chunk[t] = mpp.mallocs + 1,
                              !.pc[t] = "push_lock",
                              !.calls_left = mpp.calls_left - 1]
  /\ UNCHANGED MppOthers

\* allocate(): the mutex is taken for the push.
mpp_allocate_lock(t) ==
  /\ mpp.state = "ready"
  /\ mpp.pc[t] = "push_lock"
  /\ mpp.m_add_block_mutex = 0
  /\ mpp' = [mpp EXCEPT !.m_add_block_mutex = t, !.pc[t] = "push"]
  /\ UNCHANGED MppOthers

\* allocate(): m_chunks.push_back(chunk), the mutex is released and the
\* chunk returned.
mpp_allocate_push(t) ==
  /\ mpp.state = "ready"
  /\ mpp.pc[t] = "push"
  /\ mpp' = [mpp EXCEPT !.m_chunks = Append(mpp.m_chunks, mpp.chunk[t]),
                        !.m_add_block_mutex = 0,
                        !.held = mpp.held \cup {mpp.chunk[t]},
                        !.chunk[t] = NULL,
                        !.pc[t] = "idle"]
  /\ UNCHANGED MppOthers

\* deallocate(chunk): the chunk is kept for the next allocate().
mpp_deallocate(t, c) ==
  /\ mpp.state = "ready"
  /\ mpp.pc[t] = "idle"
  /\ mpp.calls_left > 0
  /\ c \in mpp.held
  /\ mpp' = [mpp EXCEPT !.held = mpp.held \ {c},
                        !.returned = mpp.returned \cup {c},
                        !.calls_left = mpp.calls_left - 1]
  /\ UNCHANGED MppOthers

\* release(): std::scoped_lock lock(m_sss.m_add_block_mutex).  The
\* destructor path: no new call starts once release() runs.
mpp_release(t) ==
  /\ mpp.state = "ready"
  /\ mpp.pc[t] = "idle"
  /\ mpp.m_add_block_mutex = 0
  /\ mpp' = [mpp EXCEPT !.state = "releasing", !.m_add_block_mutex = t,
                        !.index = 1, !.pc[t] = "release_free"]
  /\ UNCHANGED MppOthers

\* A loop that leaves out the first chunk of the vector.
mpp_release_free_rest(t) ==
  /\ mpp.pc[t] = "release_free"
  /\ mpp.index <= Len(mpp.m_chunks)
  /\ mpp' = IF mpp.index = 1
              THEN [mpp EXCEPT !.index = mpp.index + 1]
              ELSE [mpp EXCEPT !.host = mpp.host \ {mpp.m_chunks[mpp.index]},
                               !.freed = Append(mpp.freed, mpp.m_chunks[mpp.index]),
                               !.index = mpp.index + 1]
  /\ UNCHANGED MppOthers

\* release(): for (auto ptr : m_chunks) std::free(ptr), one chunk per step.
\* A chunk the host no longer has is a double free.
mpp_release_free(t) ==
  /\ mpp.pc[t] = "release_free"
  /\ mpp.index <= Len(mpp.m_chunks)
  /\ mpp' = IF mpp.m_chunks[mpp.index] \notin mpp.host
              THEN [mpp EXCEPT !.state = "double_free", !.pc[t] = "idle"]
              ELSE [mpp EXCEPT !.host = mpp.host \ {mpp.m_chunks[mpp.index]},
                               !.freed = Append(mpp.freed, mpp.m_chunks[mpp.index]),
                               !.index = mpp.index + 1]
  /\ UNCHANGED MppOthers

\* release(): the end of the loop; the lock goes out of scope.
mpp_release_done(t) ==
  /\ mpp.pc[t] = "release_free"
  /\ mpp.index > Len(mpp.m_chunks)
  /\ mpp' = [mpp EXCEPT !.state = "released",
                        !.m_add_block_mutex =
                          IF mpp.m_add_block_mutex = t THEN 0
                          ELSE mpp.m_add_block_mutex,
                        !.pc[t] = "idle"]
  /\ UNCHANGED MppOthers

InitPagePool ==
  /\ ListsUnused
  /\ DequeUnused
  /\ CtorUnused
  /\ reopened = FALSE
  /\ round_trip = [phase |-> "none", before |-> {}, got |-> {}, chunks |-> 0]
  /\ ptrtag = PtrTagUnused
  /\ lifo = LifoUnused
  /\ sized = SizedUnused
  /\ nmr = NmrUnused
  /\ \E calls \in 0..MaxMppCalls :
       mpp = [MppUnused EXCEPT !.state = "ready", !.calls_left = calls]
  /\ nmp = NmpUnused

NextPagePool ==
  \E t \in Threads :
    \/ mpp_allocate(t)
    \/ mpp_allocate_lock(t)
    \/ mpp_allocate_push(t)
    \/ \E c \in mpp.held : mpp_deallocate(t, c)
    \/ mpp_release(t)
    \/ mpp_release_free(t)
    \/ mpp_release_done(t)

SpecPagePool == InitPagePool /\ [][NextPagePool]_vars

-----------------------------------------------------------------------------
(* NodeMemoryPool under two threads.  Each call is three steps: taking     *)
(* pool_mutex_, and the body in two parts.                                 *)

\* Number of blocks the host can supply at one time.
MaxNmpBlocks == 2

\* Number of alloc / free / operator<< calls the threads make.
MaxNmpCalls == 10

\* NodeMemoryPool::nchunks_: the chunks of one block.
nchunks_ == 3

\* NodeMemoryPool::size_: the size of the data of a chunk.
size_ == 8

\* offsetof(Begin, first_chunk) and offsetof(Allocated, data).
offsetof_first_chunk == 16
offsetof_data == 8

\* The size of the block alloc asks malloc for.
NmpBlockSize == offsetof_first_chunk + nchunks_ * (offsetof_data + size_)

\* The addresses malloc can return.
NmpBlocks == {b * 2 * NmpBlockSize : b \in 1..MaxNmpBlocks}

\* &begin->first_chunk and the chunks after it.
NmpChunk(begin, k) == begin + offsetof_first_chunk + k * (offsetof_data + size_)
NmpChunks == {NmpChunk(begin, k) : begin \in NmpBlocks, k \in 0..(nchunks_ - 1)}

\* reinterpret_cast<Chunk*>(ptr)->allocated.data and the way back in free.
NmpData(ptr_) == ptr_ + offsetof_data
NmpFreeListOf(p) == p - offsetof_data

NmpOthers == <<listvars, dqvars, ctorvars, reopened, round_trip, sized, nmr, mpp,
                 ptrtag, lifo>>

NmpBodyPcs == {"alloc_read", "alloc_take", "free_push", "free_release", "stats_read"}

\* A lock that is taken whoever holds the mutex.
pool_mutex_free_or_not(n) == TRUE

\* std::unique_lock<std::mutex> lock(pool_mutex_) can return.
pool_mutex_free(n) == n.pool_mutex_ = 0

\* A call: its first step takes the mutex.
NmpCall(n, t, position, ptr_) ==
  [n EXCEPT !.pool_mutex_ = t, !.pc[t] = position, !.ptr[t] = ptr_,
            !.ret = NONE, !.calls_left = n.calls_left - 1]

\* The end of a call: the lock goes out of scope.
NmpReturn(n, t, value) ==
  [n EXCEPT !.pool_mutex_ = IF n.pool_mutex_ = t THEN 0 ELSE n.pool_mutex_,
            !.pc[t] = "idle", !.ptr[t] = NULL, !.ret = value]

\* alloc(size): std::unique_lock<std::mutex> lock(pool_mutex_).
NodeMemoryPool_alloc(t) ==
  /\ nmp.state = "ready"
  /\ nmp.pc[t] = "idle"
  /\ nmp.calls_left > 0
  /\ pool_mutex_free(nmp)
  /\ nmp' = NmpCall(nmp, t, "alloc_read", NULL)
  /\ UNCHANGED NmpOthers

\* alloc: ptr = free_list_, and a new block from the host when it is null.
nmp_alloc_read(t) ==
  /\ nmp.state = "ready"
  /\ nmp.pc[t] = "alloc_read"
  /\ IF nmp.free_list_ # NULL
       THEN nmp' = [nmp EXCEPT !.ptr[t] = nmp.free_list_, !.pc[t] = "alloc_take"]
       ELSE \E begin \in NmpBlocks \ nmp.host :
              LET first == NmpChunk(begin, 0)
              IN nmp' = [nmp EXCEPT !.host = nmp.host \cup {begin},
                                    !.ptr[t] = first,
                                    !.free_list_ = first,
                                    !.next_[first] = nchunks_ - 1,
                                    !.chunk_free[first] = begin,
                                    !.free[begin] = nchunks_,
                                    !.blocks_ = Append(nmp.blocks_, begin),
                                    !.total_free_ = nmp.total_free_ + nchunks_,
                                    !.pc[t] = "alloc_take"]
  /\ UNCHANGED NmpOthers

\* alloc: the tail of the block is carved when next_.n is a count, the
\* chunk leaves the list and is returned.
nmp_alloc_take(t) ==
  /\ nmp.state = "ready"
  /\ nmp.pc[t] = "alloc_take"
  /\ LET ptr_ == nmp.ptr[t]
         n == nmp.next_[ptr_]
         carve == n < nchunks_ /\ n # NULL
         second == ptr_ + size_ + offsetof_data
         carved == IF carve
                     THEN [nmp EXCEPT !.next_[ptr_] = second,
                                      !.next_[second] = n - 1,
                                      !.chunk_free[second] = nmp.chunk_free[ptr_]]
                     ELSE nmp
         begin == carved.chunk_free[ptr_]
         taken == [carved EXCEPT !.free_list_ = carved.next_[ptr_],
                                 !.free[begin] = carved.free[begin] - 1,
                                 !.total_free_ = carved.total_free_ - 1,
                                 !.held[NmpData(ptr_)] = carved.held[NmpData(ptr_)] + 1]
     IN nmp' = IF taken.free[begin] < 0
                 THEN [taken EXCEPT !.state = "aborted"]
                 ELSE NmpReturn(taken, t, NmpData(ptr_))
  /\ UNCHANGED NmpOthers

\* free(p) of a chunk the caller holds and gives up with the call: ptr is
\* computed, then std::unique_lock<std::mutex> lock(pool_mutex_).
NodeMemoryPool_free(t, p) ==
  /\ nmp.state = "ready"
  /\ nmp.pc[t] = "idle"
  /\ nmp.calls_left > 0
  /\ nmp.held[p] > 0
  /\ pool_mutex_free(nmp)
  /\ nmp' = [NmpCall(nmp, t, "free_push", NmpFreeListOf(p))
               EXCEPT !.held[p] = nmp.held[p] - 1]
  /\ UNCHANGED NmpOthers

\* free: the chunk becomes the front of the list and the counts go up.
nmp_free_push(t) ==
  /\ nmp.state = "ready"
  /\ nmp.pc[t] = "free_push"
  /\ LET ptr_ == nmp.ptr[t]
         begin == nmp.chunk_free[ptr_]
         pushed == [nmp EXCEPT !.next_[ptr_] = nmp.free_list_,
                               !.free_list_ = ptr_,
                               !.free[begin] = nmp.free[begin] + 1,
                               !.total_free_ = nmp.total_free_ + 1,
                               !.pc[t] = "free_release"]
     IN nmp' = IF pushed.free[begin] > nchunks_
                 THEN [pushed EXCEPT !.state = "aborted"]
                 ELSE pushed
  /\ UNCHANGED NmpOthers

\* An unlinking that takes only the chunk just freed from the list.
NmpUnlink_front_only(n, begin, loc, fuel) ==
  [n EXCEPT !.free_list_ = n.next_[n.free_list_]]

\* free: the for loop over the free list that unlinks the chunks between
\* begin and end.  loc is what fpp points to: 0 for free_list_, else the
\* chunk whose next_ it is.
RECURSIVE NmpUnlink(_, _, _, _)
NmpUnlink(n, begin, loc, fuel) ==
  LET at == IF loc = NULL THEN n.free_list_ ELSE n.next_[loc]
      inside == begin <= at /\ at < begin + NmpBlockSize
  IN IF fuel = 0 \/ at < nchunks_ THEN n
     ELSE IF inside
       THEN LET after == n.next_[at]
                m == IF loc = NULL THEN [n EXCEPT !.free_list_ = after]
                                   ELSE [n EXCEPT !.next_[loc] = after]
            IN IF (after < begin \/ after >= begin + NmpBlockSize)
                    /\ after < nchunks_
                 THEN IF loc = NULL THEN [n EXCEPT !.free_list_ = NULL]
                                    ELSE [n EXCEPT !.next_[loc] = NULL]
                 ELSE NmpUnlink(m, begin, loc, fuel - 1)
     ELSE NmpUnlink(n, begin, at, fuel - 1)

\* An erase that leaves blocks_ as it is.
NmpErase_keeping(blocks, begin) == blocks

\* blocks_.erase(std::remove(blocks_.begin(), blocks_.end(), begin)).
NmpErase(blocks, begin) ==
  SelectSeq(blocks, LAMBDA b : b # begin)

\* A test that asks for two more blocks' worth of free chunks.
NmpReleases_at_three(n, begin) ==
  n.free[begin] = nchunks_ /\ n.total_free_ >= 3 * nchunks_

\* if (*ptr->free == (ssize_t)nchunks_ && total_free_ >= 2 * nchunks_)
NmpReleases(n, begin) ==
  n.free[begin] = nchunks_ /\ n.total_free_ >= 2 * nchunks_

\* free: when the block is free as a whole and another block's worth of
\* chunks is free too, the block goes back to the host.
nmp_free_release(t) ==
  /\ nmp.state = "ready"
  /\ nmp.pc[t] = "free_release"
  /\ LET ptr_ == nmp.ptr[t]
         begin == nmp.chunk_free[ptr_]
     IN nmp' =
          IF NmpReleases(nmp, begin)
            THEN LET unlinked == NmpUnlink(nmp, begin, NULL, 2 * Cardinality(NmpChunks) + 2)
                 IN NmpReturn([unlinked EXCEPT
                                 !.total_free_ = nmp.total_free_ - nchunks_,
                                 !.host = nmp.host \ {begin},
                                 !.freed = nmp.freed + 1,
                                 !.blocks_ = NmpErase(nmp.blocks_, begin)],
                              t, NONE)
            ELSE NmpReturn(nmp, t, NONE)
  /\ UNCHANGED NmpOthers

\* operator<<: std::unique_lock<std::mutex> lock(pool.pool_mutex_).
NodeMemoryPool_stats(t) ==
  /\ nmp.state = "ready"
  /\ nmp.pc[t] = "idle"
  /\ nmp.calls_left > 0
  /\ pool_mutex_free(nmp)
  /\ nmp' = NmpCall(nmp, t, "stats_read", NULL)
  /\ UNCHANGED NmpOthers

RECURSIVE NmpSumFree(_, _)
NmpSumFree(blocks, free) ==
  IF blocks = <<>> THEN 0
  ELSE free[Head(blocks)] + NmpSumFree(Tail(blocks), free)

\* operator<<: num_free_chunks summed over blocks_ and
\* ASSERT(num_free_chunks == pool.total_free_).
nmp_stats_read(t) ==
  /\ nmp.state = "ready"
  /\ nmp.pc[t] = "stats_read"
  /\ nmp' = IF NmpSumFree(nmp.blocks_, nmp.free) # nmp.total_free_
              THEN [nmp EXCEPT !.state = "aborted"]
              ELSE NmpReturn(nmp, t, NmpSumFree(nmp.blocks_, nmp.free))
  /\ UNCHANGED NmpOthers

\* NodeMemoryPool(nchunks, chunk_size).
InitNodePool ==
  /\ ListsUnused
  /\ DequeUnused
  /\ CtorUnused
  /\ reopened = FALSE
  /\ round_trip = [phase |-> "none", before |-> {}, got |-> {}, chunks |-> 0]
  /\ ptrtag = PtrTagUnused
  /\ lifo = LifoUnused
  /\ sized = SizedUnused
  /\ nmr = NmrUnused
  /\ mpp = MppUnused
  /\ nmp = [NmpUnused EXCEPT !.state = "ready",
                             !.free = [b \in NmpBlocks |-> 0],
                             !.next_ = [c \in NmpChunks |-> NULL],
                             !.chunk_free = [c \in NmpChunks |-> NULL],
                             !.held = [c \in {NmpData(c) : c \in NmpChunks} |-> 0],
                             !.calls_left = MaxNmpCalls]

NextNodePool ==
  \E t \in Threads :
    \/ NodeMemoryPool_alloc(t)
    \/ nmp_alloc_read(t)
    \/ nmp_alloc_take(t)
    \/ \E p \in DOMAIN nmp.held : NodeMemoryPool_free(t, p)
    \/ nmp_free_push(t)
    \/ nmp_free_release(t)
    \/ NodeMemoryPool_stats(t)
    \/ nmp_stats_read(t)

SpecNodePool == InitNodePool /\ [][NextNodePool]_vars

-----------------------------------------------------------------------------
(* PtrTag on its own: encode, ptr, tag and next on a head and the node it  *)
(* points to.                                                              *)

\* The largest tag passed to encode, and the number of node addresses.
MaxTagArg == 5
MaxPtrTagNodes == 3

\* Node addresses: multiples of alignof(FreeNode*) >= 4.
PtrTagNodes == {4 * k : k \in 1..MaxPtrTagNodes}

PtrTagOthers == <<listvars, dqvars, ctorvars, reopened, round_trip, sized, nmr,
                  mpp, nmp, lifo>>

\* encoded_ = encode(p, t)
PtrTag_encode ==
  /\ ptrtag.state = "args"
  /\ ptrtag' = [ptrtag EXCEPT !.state = "encoded",
                              !.encoded = encode(ptrtag.p, ptrtag.t)]
  /\ UNCHANGED PtrTagOthers

\* next() of the head made by encode, whose node has next_ = node_next.
PtrTag_next ==
  /\ ptrtag.state = "encoded"
  /\ ptrtag.p # NULL
  /\ ptrtag' = [ptrtag EXCEPT
                  !.state = "next",
                  !.next = next(ptrtag.encoded,
                                [a \in {ptrtag.p} |-> ptrtag.node_next])]
  /\ UNCHANGED PtrTagOthers

InitPtrTag ==
  /\ ListsUnused
  /\ DequeUnused
  /\ CtorUnused
  /\ reopened = FALSE
  /\ round_trip = [phase |-> "none", before |-> {}, got |-> {}, chunks |-> 0]
  /\ sized = SizedUnused
  /\ nmr = NmrUnused
  /\ mpp = MppUnused
  /\ nmp = NmpUnused
  /\ lifo = LifoUnused
  /\ \E p \in PtrTagNodes \cup {NULL}, t \in 0..MaxTagArg,
        node_next \in PtrTagNodes \cup {NULL} :
       ptrtag = [PtrTagUnused EXCEPT !.state = "args", !.p = p, !.t = t,
                                     !.node_next = node_next]

NextPtrTag ==
  \/ PtrTag_encode
  \/ PtrTag_next

SpecPtrTag == InitPtrTag /\ [][NextPtrTag]_vars

-----------------------------------------------------------------------------
(* What the free lists hold.                                               *)

Quiescent == \A t \in Threads : pc[t] = "idle"

\* The nodes met from node a by following m_next in m, at most n of them.
RECURSIVE Walk(_, _, _)
Walk(a, m, n) ==
  IF a = NULL \/ n = 0 \/ a \notin DOMAIN m
    THEN <<>>
    ELSE <<a>> \o Walk(m[a], m, n - 1)

FreeList == Walk(ptr(m_head_tag), mem, Cardinality(DOMAIN mem) + 1)

Occurrences(seq, b) == Cardinality({i \in 1..Len(seq) : seq[i] = b})

\* The blocks add_block has put on the list so far.
AddedBlocks == UNION {ChunkBlocks(c) : c \in 1..chunks_given}

\* The node the mapped allocate makes the head after node a.
MappedSucc(a) ==
  IF mem[a] # NULL THEN mem[a]
  ELSE IF a + block_size_ = mapped_base_ + mapped_size_ THEN NULL
  ELSE a + block_size_

RECURSIVE MappedWalk(_, _)
MappedWalk(a, n) ==
  IF a = NULL \/ n = 0 \/ a \notin DOMAIN mem
    THEN {}
    ELSE {a} \cup MappedWalk(MappedSucc(a), n - 1)

MappedFreeList == MappedWalk(ptr(m_head_tag), Cardinality(DOMAIN mem) + 1)

RefillPcs == {"in_mpp", "ab_link", "ab_splice", "ab_cas"}

-----------------------------------------------------------------------------
(* One caller who, after some calls, gives one block back and allocates at *)
(* once, on the mapped and on the anonymous free list.                     *)

\* The blocks the mapped allocate hands out from node a on, in order, at
\* most n of them.
RECURSIVE MappedSeq(_, _)
MappedSeq(a, n) ==
  IF a = NULL \/ n = 0 \/ a \notin DOMAIN mem
    THEN <<>>
    ELSE <<a>> \o MappedSeq(MappedSucc(a), n - 1)

\* The sequence of blocks reachable from the head.
LifoList ==
  IF mapped_base_ # NULL
    THEN MappedSeq(ptr(m_head_tag), Cardinality(DOMAIN mem) + 1)
    ELSE FreeList

\* The caller decides to deallocate p and to allocate at once.
lifo_plan(p) ==
  /\ lifo.phase = "none"
  /\ pc[SingleCaller] = "idle"
  /\ ~crashed
  /\ held[p] > 0
  /\ calls_left = NONE \/ calls_left >= 2
  /\ lifo' = [phase |-> "planned", p |-> p, before |-> LifoList,
              calls |-> calls_left]
  /\ UNCHANGED <<listvars, dqvars, ctorvars, reopened, round_trip, sized, nmr,
                 mpp, nmp, ptrtag>>

\* The calls the plan allows: any before it is made, then deallocate(p),
\* then one allocate.
LifoMayDeallocate(p) ==
  \/ lifo.phase = "none"
  \/ lifo.phase = "planned" /\ p = lifo.p /\ calls_left = lifo.calls
LifoMayAllocate ==
  \/ lifo.phase = "none"
  \/ lifo.phase = "planned" /\ calls_left = lifo.calls - 1

\* The allocate that follows the deallocate has returned.
LifoDone ==
  /\ lifo.phase = "planned"
  /\ pc[SingleCaller] = "idle"
  /\ calls_left = lifo.calls - 2

NextLifoMapped ==
  \/ LifoMayAllocate /\ mapped_allocate(SingleCaller)
  \/ mapped_allocate_next(SingleCaller)
  \/ mapped_allocate_cas_ok(SingleCaller)
  \/ mapped_allocate_cas_fail(SingleCaller)
  \/ \E p \in DOMAIN held : LifoMayDeallocate(p) /\ deallocate(SingleCaller, p)
  \/ deallocate_write(SingleCaller)
  \/ deallocate_cas_ok(SingleCaller)
  \/ deallocate_cas_fail(SingleCaller)
  \/ segfault(SingleCaller)
  \/ \E p \in DOMAIN held : lifo_plan(p)

SpecLifoMapped == InitMapped /\ [][NextLifoMapped]_vars

NextLifo ==
  \/ LifoMayAllocate /\ allocate(SingleCaller)
  \/ allocate_again(SingleCaller)
  \/ allocate_next(SingleCaller)
  \/ allocate_cas_ok(SingleCaller)
  \/ allocate_cas_fail(SingleCaller)
  \/ tam_lock(SingleCaller)
  \/ try_allocate_more(SingleCaller)
  \/ refill_fail(SingleCaller)
  \/ refill_chunk(SingleCaller)
  \/ add_block(SingleCaller)
  \/ add_block_splice(SingleCaller)
  \/ add_block_cas_ok(SingleCaller)
  \/ add_block_cas_fail(SingleCaller)
  \/ \E p \in DOMAIN held : LifoMayDeallocate(p) /\ deallocate(SingleCaller, p)
  \/ deallocate_write(SingleCaller)
  \/ deallocate_cas_ok(SingleCaller)
  \/ deallocate_cas_fail(SingleCaller)
  \/ \E p \in DOMAIN held : lifo_plan(p)

SpecLifo == InitCalls /\ [][NextLifo]_vars

-----------------------------------------------------------------------------
(* Progress of the anonymous free list: two threads making finitely many   *)
(* calls, with an upstream pool that never runs out.                       *)

\* The calls the threads make between them.
MaxLiveCalls == 4

InitLive ==
  /\ m_head_tag = end_of_list
  /\ mem = [a \in SSSBlocks |-> NULL]
  /\ m_add_block_mutex = 0
  /\ pc = [t \in Threads |-> "idle"]
  /\ head_tag = [t \in Threads |-> 0]
  /\ new_head_tag = [t \in Threads |-> 0]
  /\ new_front_node = [t \in Threads |-> NULL]
  /\ chunk = [t \in Threads |-> NULL]
  /\ ret = NoRet
  /\ held = [a \in SSSBlocks |-> 0]
  /\ chunks_given = 0
  /\ popped = [t \in Threads |-> FALSE]
  /\ calls_left = MaxLiveCalls
  /\ mapped_base_ = NULL
  /\ mapped_size_ = 0
  /\ block_size_ = 0
  /\ crashed = FALSE
  /\ fresh = FALSE
  /\ alloc_log = <<>>
  /\ DequeUnused
  /\ CtorUnused
  /\ PoolsUnused

\* A thread enters a call: the caller's choice.
LiveCall(t) ==
  \/ allocate(t)
  \/ \E p \in DOMAIN held : deallocate(t, p)

\* A step of a thread inside a call, other than a successful
\* compare-exchange.
LiveStep(t) ==
  \/ allocate_again(t)
  \/ allocate_next(t)
  \/ allocate_cas_fail(t)
  \/ tam_lock(t)
  \/ try_allocate_more(t)
  \/ refill_chunk(t)
  \/ add_block(t)
  \/ add_block_splice(t)
  \/ add_block_cas_fail(t)
  \/ deallocate_write(t)
  \/ deallocate_cas_fail(t)

\* A compare_exchange_weak that finds the expected value and succeeds.
LiveCas(t) ==
  \/ allocate_cas_ok(t)
  \/ add_block_cas_ok(t)
  \/ deallocate_cas_ok(t)

NextLive ==
  \E t \in Threads :
    \/ LiveCall(t)
    \/ LiveStep(t)
    \/ LiveCas(t)

\* Every thread inside a call keeps being scheduled, and a
\* compare_exchange_weak that finds the expected value again and again does
\* not fail every time.
LiveFairness ==
  \A t \in Threads :
    /\ WF_vars(LiveStep(t) \/ LiveCas(t))
    /\ SF_vars(LiveCas(t))

SpecLive == InitLive /\ [][NextLive]_vars /\ LiveFairness

-----------------------------------------------------------------------------
(* The claims.                                                             *)

\* C1: on one SimpleSegregatedStorage free list, under any interleaving of
\* allocate, deallocate and add_block by two threads, allocate never returns
\* a block that a caller still holds: no block has two holders.
C1_NoBlockHeldTwice == \A b \in DOMAIN held : held[b] <= 1

\* C2: block conservation: once every call has returned, each block that
\* add_block put on the list is either held by exactly one caller or met
\* exactly once on the walk from the head along m_next, never both or neither.
C2_BlockConservation ==
  Quiescent =>
    \A b \in AddedBlocks : held[b] + Occurrences(FreeList, b) = 1

\* C3: on a mapped free list over mapped_size / block_size whole blocks, when
\* deallocate is only passed pointers that allocate returned, no block that a
\* caller holds is on the list the head leads to, and no block is handed out
\* while it is held.
C3_HeldNotOnMappedList ==
  (mapped_size_ > 0 /\ mapped_size_ % block_size_ = 0) =>
    \A b \in DOMAIN held :
      /\ held[b] <= 1
      /\ held[b] > 0 => b \notin MappedFreeList

\* C4: every non-null pointer p that MemoryMappedPool::allocate returns lies
\* in the mapping with its whole block: base <= p and
\* p + block_size <= base + size.
C4_AllocateInsideMapping ==
  (mapped_size_ > 0 /\ ret.value # NONE /\ ret.value # NULL) =>
    /\ mapped_base_ <= ret.value
    /\ ret.value + block_size_ <= mapped_base_ + mapped_size_

\* C5: on a fresh mapped list of N = size / block_size whole blocks, with no
\* deallocate so far, the k-th allocate returns base + (k-1) * block_size for
\* k <= N, the N-th leaves the head at end_of_list, and the next returns null.
C5_FreshAllocateOrder ==
  (fresh /\ mapped_size_ > 0 /\ mapped_size_ % block_size_ = 0) =>
    LET N == mapped_size_ \div block_size_
    IN /\ \A k \in 1..Len(alloc_log) :
            alloc_log[k] = IF k <= N THEN mapped_base_ + (k - 1) * block_size_
                           ELSE NULL
       /\ Len(alloc_log) >= N => m_head_tag = end_of_list

\* C5 witness: the list of four one-page blocks was emptied by four
\* allocates and a fifth returned null.
C5_Witness ==
  /\ fresh
  /\ block_size_ = memory_page_size
  /\ mapped_size_ = 4 * memory_page_size
  /\ Len(alloc_log) = 5
  /\ alloc_log[5] = NULL

\* C6: a thread about to compare-exchange in allocate, with a head_tag it
\* loaded before another pop succeeded, finds m_head_tag different from it.
C6_TagDefeatsABA ==
  \A t \in Threads :
    (pc[t] = "a_cas" /\ popped[t]) => m_head_tag # head_tag[t]

\* C7: a successful pop of node X installs as the head pointer the value
\* X's m_next has at the moment of the compare-exchange.
C7_PopInstallsCurrentNext ==
  [][\A t \in Threads :
       (pc[t] = "a_cas" /\ pc'[t] = "idle") =>
         ptr(m_head_tag') = mem[ptr(head_tag[t])]]_vars

\* C8: allocate(refill) returns nullptr exactly when the thread, holding the
\* mutex and having seen m_head_tag == end_of_list, gets false from its
\* refill; when the refill returns true the call does not return but loads
\* the head again.
C8_NullIffRefillFailed ==
  [][\A t \in Threads :
       /\ (ret' = [thread |-> t, value |-> NULL])
            <=> /\ pc[t] = "in_mpp"
                /\ pc'[t] # "in_mpp"
                /\ chunk'[t] = NULL
                /\ m_add_block_mutex = t
                /\ head_tag[t] = end_of_list
       /\ (pc[t] = "ab_cas" /\ pc'[t] \notin {"ab_cas", "ab_splice"})
            => (pc'[t] = "a_load" /\ ret' = NoRet)]_vars

\* C8 witness: an allocate returned nullptr after the list had been
\* refilled and emptied.
C8_Witness ==
  /\ ret.thread \in Threads
  /\ ret.value = NULL
  /\ chunks_given > 0
  /\ m_head_tag = end_of_list

\* C9: the refill lambda and add_block run only in a thread that owns
\* m_add_block_mutex and saw m_head_tag == end_of_list after locking it; at
\* most one thread is in them at any time.
C9_RefillUnderMutex ==
  /\ \A t \in Threads : pc[t] \in RefillPcs => m_add_block_mutex = t
  /\ \A t \in Threads : pc[t] = "in_mpp" => head_tag[t] = end_of_list
  /\ Cardinality({t \in Threads : pc[t] \in RefillPcs}) <= 1

\* C9 witness: one thread splices its new chunk while the other waits for
\* the mutex.
C9_Witness ==
  \E t, u \in Threads :
    /\ pc[t] = "ab_splice"
    /\ pc[u] = "tam_lock"

\* C10 as stated: no thread is inside mpp_->allocate() while it owns
\* m_add_block_mutex.
C10_MutexFreeInUpstream ==
  \A t \in Threads : ~(pc[t] = "in_mpp" /\ m_add_block_mutex = t)

\* C10 amended: every thread inside mpp_->allocate() called by the refill
\* lambda owns m_add_block_mutex for the whole of that call.
C10_MutexHeldInUpstream ==
  \A t \in Threads : pc[t] = "in_mpp" => m_add_block_mutex = t

\* C10 witness: a thread is inside mpp_->allocate() while the other thread
\* waits for the mutex.
C10_Witness ==
  \E t, u \in Threads :
    /\ pc[t] = "in_mpp"
    /\ m_add_block_mutex = t
    /\ pc[u] = "tam_lock"

\* C11: deallocate never takes or waits for m_add_block_mutex: each of its
\* steps can be taken whoever owns the mutex, and the call returns as soon as
\* its compare-exchange finds the head it loaded; allocate is at the lock
\* only with a head_tag equal to end_of_list, and only a thread in
\* try_allocate_more owns the mutex.
C11_DeallocateNeverLocks ==
  \A t \in Threads :
    /\ pc[t] = "d_write" => ENABLED deallocate_write(t)
    /\ pc[t] = "d_cas" => ENABLED deallocate_cas_fail(t)
    /\ (pc[t] = "d_cas" /\ m_head_tag = head_tag[t])
         => ENABLED deallocate_cas_ok(t)
    /\ pc[t] \in {"d_write", "d_cas"} => m_add_block_mutex # t
    /\ pc[t] \in {"tam_lock", "tam_check"} => head_tag[t] = end_of_list
    /\ m_add_block_mutex = t => pc[t] \in {"tam_check"} \cup RefillPcs

\* C11 witness: a deallocate is about to write m_next while the other
\* thread is in the refill and owns the mutex.
C11_Witness ==
  \E t, u \in Threads :
    /\ pc[t] = "d_write"
    /\ pc[u] \in RefillPcs
    /\ m_add_block_mutex = u

-----------------------------------------------------------------------------
(* What the DequeMemoryResource does with a call.                          *)

\* The step is a call of DequeMemoryResource::allocate or deallocate.
DqCall(op) == dq_calls_left' # dq_calls_left /\ dq_ret'.op = op

\* init() was called.
DqInitialised ==
  \A index \in 0..(nmra_size - 1) : m_node_memory_resources[index].mpp_ # NULL

\* The bucket whose chunk the block at p lies in.
DqOwner(p) ==
  dq_chunks[CHOOSE c \in 1..Len(dq_chunks) :
              DqChunkBase(c) <= p /\ p < DqChunkBase(c) + dq_mpp_block_size]

\* C12: on an initialised resource allocate(n) with 1 <= n <= S_11 takes its
\* block from bucket i = size_to_index(n), a partition of size
\* S_i = sizeof(void*) * i2s[i] of a chunk of that bucket, and
\* n <= S_i <= S_11; for n > S_11 it returns what malloc returns and leaves
\* every bucket as it was.
C12_AllocateFromFittingBucket ==
  [][(DqCall("allocate") /\ DqInitialised /\ ~dq_aborted') =>
       LET n == dq_ret'.n
           i == size_to_index(n)
           p == dq_ret'.p
       IN IF n <= upper_size
            THEN /\ dq_ret'.route = i
                 /\ n <= index_to_size(i)
                 /\ index_to_size(i) <= upper_size
                 /\ m_node_memory_resources'[i].block_size_ = index_to_size(i)
                 /\ p # NULL =>
                      \E c \in 1..Len(dq_chunks') :
                        /\ dq_chunks'[c] = i
                        /\ p \in DqPartitions(c, index_to_size(i))
            ELSE /\ dq_ret'.route = HOST
                 /\ p \in HostBlocks \cup {NULL}
                 /\ m_node_memory_resources' = m_node_memory_resources
                 /\ dq_mem' = dq_mem
                 /\ dq_chunks' = dq_chunks]_vars

\* C12 witness: with 8-byte pointers a request of 209 bytes, one more than
\* bucket 3 holds, got a block of bucket 4.
C12_Witness ==
  /\ sizeof_ptr = 8
  /\ dq_ret.op = "allocate"
  /\ dq_ret.n = 8 * 26 + 1
  /\ dq_ret.route = 4
  /\ dq_ret.p \in DqPartitions(1, 8 * 38)

C14_CutoffAtLargestBucket ==
  [][(DqCall("allocate") /\ DqInitialised /\ ~dq_aborted') =>
       /\ dq_ret'.n = sizeof_ptr * 451 =>
            /\ dq_ret'.route = 11
            /\ dq_ret'.p \notin HostBlocks
            /\ dq_ret'.p # NULL =>
                 \E c \in 1..Len(dq_chunks') :
                   /\ dq_chunks'[c] = 11
                   /\ dq_ret'.p \in DqPartitions(c, sizeof_ptr * 451)
       /\ dq_ret'.n = sizeof_ptr * 451 + 1 =>
            /\ dq_ret'.route = HOST
            /\ dq_ret'.p \in HostBlocks \cup {NULL}
            /\ m_node_memory_resources' = m_node_memory_resources
            /\ dq_mem' = dq_mem]_vars

\* C14 witness: a request of exactly S_11 bytes got a block of bucket 11.
C14_Witness ==
  /\ dq_ret.op = "allocate"
  /\ dq_ret.n = sizeof_ptr * 451
  /\ dq_ret.route = 11
  /\ dq_ret.p \in DqPartitions(1, sizeof_ptr * 451)

\* C15: deallocate(p, n) with the n of the allocate that returned p routes as
\* that allocate did: for n <= S_11 the block becomes the front of the free
\* list of the bucket it was taken from, pointing to the old front, and no
\* other bucket changes; for n > S_11 it is passed to free() and no bucket
\* and no free list changes.
C15_DeallocateToSameBucket ==
  [][DqCall("deallocate") =>
       LET p == dq_ret'.p
           n == dq_ret'.n
       IN /\ [p |-> p, n |-> n] \in dq_held
          /\ [p |-> p, n |-> n] \notin dq_held'
          /\ IF n <= upper_size
               THEN LET b == DqOwner(p)
                    IN /\ b = allocate_route(n)
                       /\ ptr(m_node_memory_resources'[b].m_head_tag) = p
                       /\ dq_mem'[p] = ptr(m_node_memory_resources[b].m_head_tag)
                       /\ \A j \in 0..(nmra_size - 1) :
                            j # b => m_node_memory_resources'[j] =
                                       m_node_memory_resources[j]
               ELSE /\ p \in HostBlocks
                    /\ dq_ret'.route = HOST
                    /\ m_node_memory_resources' = m_node_memory_resources
                    /\ dq_mem' = dq_mem]_vars

\* C15 witness: a block of S_11 bytes was given back and is the front of
\* the free list of bucket 11.
C15_Witness ==
  /\ dq_ret.op = "deallocate"
  /\ dq_ret.n = sizeof_ptr * 451
  /\ dq_ret.route = 11
  /\ ptr(m_node_memory_resources[11].m_head_tag) = dq_ret.p

\* C16: init binds each of the twelve buckets to the pool with block size
\* sizeof(void*) * table[i]; allocate(n) with n <= S_11 before init aborts
\* and hands out nothing; init on an initialised resource aborts; every block
\* of a bucket that the caller holds was allocated after init.
C16_InitProtocol ==
  [][LET table == <<8, 12, 18, 26, 38, 54, 78, 111, 158, 224, 318, 451>>
     IN /\ (dq_ret'.op = "init" /\ ~dq_aborted /\ ~DqInitialised) =>
             /\ ~dq_aborted'
             /\ \A i \in 0..11 :
                  /\ m_node_memory_resources'[i].mpp_ # NULL
                  /\ m_node_memory_resources'[i].block_size_ =
                       sizeof_ptr * table[i + 1]
        /\ (dq_ret'.op = "init" /\ ~dq_aborted /\ DqInitialised) =>
             /\ dq_aborted'
             /\ m_node_memory_resources' = m_node_memory_resources
        /\ (DqCall("allocate") /\ ~DqInitialised
              /\ dq_ret'.n <= sizeof_ptr * 451) =>
             /\ dq_aborted'
             /\ dq_held' = dq_held
        /\ \A h \in dq_held' : h.p \notin HostBlocks => DqInitialised']_vars

\* C16 witness: an allocate before init ended in the failed ASSERT.
C16_Witness ==
  /\ dq_aborted
  /\ dq_ret.op = "allocate"
  /\ ~DqInitialised
  /\ dq_held = {}

-----------------------------------------------------------------------------
(* What the constructor of MemoryMappedPool accepts and leaves behind.     *)

\* C17: the constructor throws at the validation, before it creates or
\* opens anything, exactly for: file absent and file_size == 0; file absent
\* and mode read_only or copy_on_write; file present but not a readable
\* regular file; file present, not writable and mode persistent; file
\* present, not writable and zero_init. Every other combination passes the
\* validation.
C17_ValidationMatrix ==
  ctor.pc \notin {"start", "aborted"} =>
    LET st == ctor.file_status
        absent == st = "absent"
        violated ==
          \/ absent /\ ctor.file_size = 0
          \/ absent /\ ctor.mode \in {"read_only", "copy_on_write"}
          \/ st \in {"directory", "unreadable"}
          \/ st = "readonly" /\ ctor.mode = "persistent"
          \/ st = "readonly" /\ ctor.zero_init
        rejected == ctor.pc = "thrown" /\ ctor.error = "validation"
    IN /\ rejected <=> violated
       /\ rejected => /\ ctor.fd \notin open_fds
                      /\ ctor.fd # NewFd
                      /\ file.state = st

\* C17 witness: copy_on_write with zero_init on a file that is only
\* readable was rejected by the validation.
C17_Witness ==
  /\ ctor.pc = "thrown"
  /\ ctor.error = "validation"
  /\ ctor.file_status = "readonly"
  /\ ctor.mode = "copy_on_write"
  /\ ctor.zero_init

\* C18: when the file exists, the constructor gets past the size checks
\* only if the file length is a multiple of the page size and, for a nonzero
\* file_size, equal to file_size; and mapped_size_ is only ever set to the
\* length of the file.
C18_ExistingFileSize ==
  /\ (file_exists(ctor.file_status)
        /\ ctor.pc \in {"zero_range", "mmap", "initialize", "done"}) =>
       /\ file.length % memory_page_size = 0
       /\ ctor.file_size # 0 => file.length = ctor.file_size
  /\ mapped_size_ # NONE => mapped_size_ = file.length

\* C18 witness: an existing file of 12288 bytes with file_size = 8192 was
\* rejected by the size check.
C18_Witness ==
  /\ ctor.pc = "thrown"
  /\ ctor.error = "size"
  /\ ctor.file_status = "writable"
  /\ file.length = 12288
  /\ ctor.file_size = 8192
  /\ mapped_size_ = NONE

\* C19: with mode read_only and zero_init the constructor ends by throwing
\* an error to its caller, for every file: it neither aborts the process nor
\* constructs the pool.
C19_ReadOnlyZeroInitThrows ==
  (ctor.mode = "read_only" /\ ctor.zero_init /\ ctor.pc # "start") =>
    ctor.pc = "thrown"

\* C20: when the constructor has thrown, at whatever step, mapped_base_ is
\* MAP_FAILED and nothing is mapped, the descriptor it opened is closed, and
\* the head of the free list is still end_of_list.
C20_FailedCtorLeavesNothing ==
  ctor.pc = "thrown" =>
    /\ mapped_base_ = MAP_FAILED
    /\ mappings = {}
    /\ open_fds = {}
    /\ m_head_tag = end_of_list

\* C20 witness: mmap failed after the file had been opened and sized.
C20_Witness ==
  /\ ctor.pc = "thrown"
  /\ ctor.error = "mmap"
  /\ ctor.fd = NewFd
  /\ mapped_size_ # NONE

\* C21: whenever the constructor succeeds with zero_init, every byte of the
\* file it mapped is zero, so the first word of every block reads null.
C21_ZeroInitHonoured ==
  (ctor.pc = "done" /\ ctor.zero_init) =>
    /\ file.zero
    /\ \A a \in DOMAIN mem : mem[a] = NULL

\* C22: in a persistent pool constructed again on the file an earlier pool
\* left, the first N = mapped_size_ / block_size_ allocate calls return N
\* distinct blocks of the mapping, and the call after them returns null.
C22_ReopenServesEveryBlock ==
  (reopened /\ mapped_size_ % block_size_ = 0) =>
    \A i \in 1..Len(alloc_log) :
      IF i <= mapped_size_ \div block_size_
        THEN /\ alloc_log[i] # NULL
             /\ InMapping(alloc_log[i])
             /\ \A j \in 1..(i - 1) : alloc_log[j] # alloc_log[i]
        ELSE alloc_log[i] = NULL

\* C30: the step in which a deallocate(p) publishes p replaces a head (q, t)
\* by (p, t), the tag unchanged, and p->m_next is q at that moment, also
\* when earlier compare-exchanges of the call failed.
C30_PushKeepsTag ==
  [][\A t \in Threads :
       (pc[t] = "d_cas" /\ pc'[t] = "idle") =>
         LET p == new_front_node[t]
         IN /\ m_head_tag' = encode(p, tag(m_head_tag))
            /\ tag(m_head_tag') = tag(m_head_tag)
            /\ ptr(m_head_tag') = p
            /\ mem'[p] = ptr(m_head_tag)]_vars

\* C23: one caller who allocated N blocks and deallocated the same N blocks
\* in any order holds no block, has every one of them on the free list once,
\* and then gets N blocks again, each of them once, from N allocate calls
\* that neither reach the refill nor make the pool hand out a chunk.
C23_RoundTrip ==
  /\ (round_trip.phase = "deallocate" /\ calls_left = 0 /\ Quiescent) =>
       /\ HeldBlocks = round_trip.before
       /\ \A p \in round_trip.got : Occurrences(FreeList, p) = 1
  /\ round_trip.phase = "again" =>
       /\ chunks_given = round_trip.chunks
       /\ \A t \in Threads : pc[t] \notin RefillPcs \cup {"tam_lock", "tam_check"}
       /\ ret.thread # 0 => ret.value \in round_trip.got
       /\ \A p \in DOMAIN held : held[p] <= 1
       /\ Quiescent =>
            Cardinality(HeldBlocks \ round_trip.before)
              = Cardinality(round_trip.got) - calls_left

\* C23 witness: two blocks were allocated, given back, and allocated again.
C23_Witness ==
  /\ round_trip.phase = "again"
  /\ Cardinality(round_trip.got) = 2
  /\ calls_left = 0
  /\ Quiescent
  /\ HeldBlocks = round_trip.got
  /\ chunks_given > 0

-----------------------------------------------------------------------------
(* What add_block makes of a chunk.                                        *)

\* The first n nodes of the free list of the NodeMemoryResource s.
SizedFront(s, n) == Walk(ptr(s.m_head_tag), s.m_next, n)

\* A call of add_block that returned was the last step.
AddBlockStep ==
  /\ sized'.op = "add_block"
  /\ sized'.state = "ready"
  /\ sized'.calls_left = sized.calls_left - 1

\* C29: add_block(chunk, chunk_size, block_size) run with no concurrent
\* operation adds exactly the N = chunk_size / block_size nodes
\* chunk + k * block_size, links each to the one after it and the last one
\* to the pointer of the previous head (null for an empty list), makes
\* (chunk, tag 0) the head and leaves the links of the nodes that were on
\* the list as they were, so that those nodes follow the N new ones; for
\* N = 2 the list starts with the two blocks, followed by the old front.
C29_AddBlockCarves ==
  [][AddBlockStep =>
       LET block == SizedChunkBase(sized.chunks + 1)
           N == sized.block_size \div sized.partition_size
           node(k) == block + k * sized.partition_size
       IN /\ N >= 2
          /\ (DOMAIN sized'.m_next) \ (DOMAIN sized.m_next)
               = {node(k) : k \in 0..(N - 1)}
          /\ Cardinality({node(k) : k \in 0..(N - 1)}) = N
          /\ \A k \in 0..(N - 2) : sized'.m_next[node(k)] = node(k + 1)
          /\ sized'.m_next[node(N - 1)] = ptr(sized.m_head_tag)
          /\ sized.m_head_tag = end_of_list => sized'.m_next[node(N - 1)] = NULL
          /\ sized'.m_head_tag = encode(block, 0)
          /\ ptr(sized'.m_head_tag) = block
          /\ tag(sized'.m_head_tag) = 0
          /\ \A a \in DOMAIN sized.m_next : sized'.m_next[a] = sized.m_next[a]
          /\ N = 2 =>
               /\ SizedFront(sized', 2) = <<block, block + sized.partition_size>>
               /\ SizedFront(sized', 4)
                    = SizedFront(sized', 2) \o SizedFront(sized, 2)]_vars

\* add_block has put a chunk of two blocks in front of a list that was not
\* empty.
C29_Witness ==
  /\ sized.op = "add_block"
  /\ sized.state = "ready"
  /\ sized.block_size \div sized.partition_size = 2
  /\ Len(SizedFront(sized, 3)) = 3
  /\ SizedFront(sized, 2)
       = <<SizedChunkBase(sized.chunks),
           SizedChunkBase(sized.chunks) + sized.partition_size>>

\* C26: for every bucket size and every block size of the MemoryPagePool a
\* refill partitions the chunk into at least two blocks, so that the ASSERT
\* of add_block never fails.
C26_RefillMakesTwoPartitions ==
  sized.partition_size \in BucketSizes =>
    /\ sized.state # "aborted"
    /\ sized.chunks > 0 =>
         sized_number_of_partitions(sized.block_size, sized.partition_size) >= 2

\* C27: for every block size of at least sizeof(void*) every node add_block
\* made has its two low bits zero, and the head is end_of_list or encodes
\* the node that was made the front: decoding it gives that node.
C27_NodesAligned ==
  (sized.state # "none" /\ sized.partition_size >= sizeof_ptr) =>
    /\ \A a \in DOMAIN sized.m_next : AndTagMask(a) = 0
    /\ \/ sized.m_head_tag = end_of_list /\ sized.front = NULL
       \/ /\ sized.m_head_tag # end_of_list
          /\ sized.front # NULL
          /\ AndTagMask(sized.front) = 0
          /\ ptr(sized.m_head_tag) = sized.front

-----------------------------------------------------------------------------
(* The block size of a NodeMemoryResource.                                 *)

\* C24: once block_size_ is nonzero no init, allocate or deallocate of any
\* thread changes it, concurrent first allocations included.
C24_BlockSizeFixed ==
  [][nmr.block_size_ # 0 => nmr'.block_size_ = nmr.block_size_]_vars

-----------------------------------------------------------------------------
(* What MemoryPagePool gives back to the host.                             *)

\* C25: a chunk goes back to the host only in a step of release(), taken
\* by the thread that holds the mutex of the pool, and that step frees the
\* next element of m_chunks; when release() has returned, the chunks freed
\* are those of m_chunks, each once and in the order of the vector.
C25_ChunksKeptUntilRelease ==
  [][/\ (mpp'.host # mpp.host \/ mpp'.freed # mpp.freed) =>
          \/ /\ mpp'.freed = mpp.freed
             /\ mpp.host \subseteq mpp'.host
          \/ \E t \in Threads :
               /\ mpp.pc[t] = "release_free"
               /\ mpp.m_add_block_mutex = t
               /\ mpp'.freed = Append(mpp.freed, mpp.m_chunks[Len(mpp.freed) + 1])
               /\ mpp'.host = mpp.host \ {mpp.m_chunks[Len(mpp.freed) + 1]}
               /\ mpp.m_chunks[Len(mpp.freed) + 1] \in mpp.host
               /\ mpp'.m_chunks = mpp.m_chunks
     /\ mpp'.state = "released" =>
          /\ mpp'.freed = mpp'.m_chunks
          /\ \A i, j \in 1..Len(mpp'.freed) :
               mpp'.freed[i] = mpp'.freed[j] => i = j
     /\ mpp'.state # "double_free"]_vars

\* release() has returned after freeing three chunks, one of them given
\* back to the pool before.
C25_Witness ==
  /\ mpp.state = "released"
  /\ Len(mpp.m_chunks) >= 2
  /\ mpp.freed = mpp.m_chunks
  /\ mpp.returned # {}
  /\ mpp.held # {}

-----------------------------------------------------------------------------
(* What NodeMemoryPool hands out.                                          *)

\* C28: alloc, free and operator<< run their bodies under pool_mutex_, and
\* whatever the interleaving of the calls no chunk is held twice, a held
\* chunk lies in a block the host has not got back, no ASSERT fails, and
\* the counts agree with the chunks handed out.
C28_NodePoolThreadSafe ==
  nmp.state # "none" =>
    /\ nmp.state = "ready"
    /\ \A t \in Threads : nmp.pc[t] \in NmpBodyPcs => nmp.pool_mutex_ = t
    /\ \A p \in DOMAIN nmp.held : nmp.held[p] <= 1
    /\ \A p \in DOMAIN nmp.held :
         nmp.held[p] > 0 =>
           \E begin \in nmp.host : begin <= p /\ p < begin + NmpBlockSize
    /\ nmp.ret \in DOMAIN nmp.held => nmp.held[nmp.ret] = 1
    /\ nmp.pool_mutex_ = 0 =>
         /\ nmp.total_free_ + Cardinality({p \in DOMAIN nmp.held : nmp.held[p] > 0})
              = nchunks_ * Len(nmp.blocks_)
         /\ {nmp.blocks_[i] : i \in 1..Len(nmp.blocks_)} = nmp.host

\* alloc has returned a chunk carved from the tail of a block after a block
\* went back to the host, while the other chunk handed out is still held.
C28_Witness ==
  /\ nmp.freed > 0
  /\ nmp.ret \in DOMAIN nmp.held
  /\ \E begin \in NmpBlocks : nmp.ret = NmpData(NmpChunk(begin, 1))
  /\ Cardinality({p \in DOMAIN nmp.held : nmp.held[p] > 0}) >= 2

-----------------------------------------------------------------------------
(* What PtrTag packs and unpacks.                                          *)

\* C31: ptr() and tag() of encode(q, t) are q and t mod 4 for every
\* 4-aligned q; next() of a head (p, t) with p non-null is end_of_list
\* (pointer bits zero, tag bits 3) when p->next_ is null, and otherwise
\* p->next_ with the tag (t + 1) mod 4.
C31_PtrTagNext ==
  /\ ptrtag.state \in {"encoded", "next"} =>
        /\ ptr(ptrtag.encoded) = ptrtag.p
        /\ tag(ptrtag.encoded) = ptrtag.t % 4
  /\ ptrtag.state = "next" =>
        IF ptrtag.node_next = NULL
          THEN /\ ptrtag.next = end_of_list
               /\ ptrtag.next - (ptrtag.next % 4) = 0
               /\ ptrtag.next % 4 = 3
          ELSE /\ ptrtag.next - (ptrtag.next % 4) = ptrtag.node_next
               /\ ptrtag.next % 4 = (ptrtag.t + 1) % 4

\* next() was taken of a head with tag 3 whose node has a successor: the
\* tag wraps to 0.
C31_Witness ==
  /\ ptrtag.state = "next"
  /\ ptrtag.t % 4 = 3
  /\ ptrtag.node_next # NULL
  /\ ptrtag.next = ptrtag.node_next

-----------------------------------------------------------------------------
(* The free list as a stack.                                               *)

\* C32: with no concurrent operation, deallocate(p) immediately followed
\* by allocate() returns p and restores the sequence of blocks reachable
\* from the head to what it was before the deallocate.
C32_Lifo ==
  LifoDone =>
    /\ ret.value = lifo.p
    /\ LifoList = lifo.before

\* The same, when the list was not empty and held no block of a caller
\* before the deallocate, and the file holds a whole number of blocks.
C32_LifoNotEmpty ==
  /\ LifoDone
  /\ lifo.before # <<>>
  /\ mapped_size_ % block_size_ = 0
  /\ \A i \in 1..Len(lifo.before) : held[lifo.before[i]] = 0
  =>
    /\ ret.value = lifo.p
    /\ LifoList = lifo.before

-----------------------------------------------------------------------------
(* Where the lazy tail of the mapped list ends.                            *)

\* The compare-exchange of MappedSegregatedStorage::allocate succeeds in
\* this step.
MappedPopStep ==
  /\ pc[MappedCaller] = "m_cas"
  /\ pc'[MappedCaller] = "idle"
  /\ ret'.value = ptr(m_head_tag)

\* C33: when the next_ of the popped node is null and popped + block_size
\* lies at or past base + size, the allocate makes end_of_list the head; it
\* never installs a head that points at or beyond base + size.
C33_TailEndsAtMappingEnd ==
  [][MappedPopStep =>
       LET front_node == ptr(m_head_tag)
       IN /\ (/\ InMapping(front_node)
               /\ mem[front_node] = NULL
               /\ front_node + block_size_ >= mapped_base_ + mapped_size_)
               => m_head_tag' = end_of_list
          /\ \/ m_head_tag' = end_of_list
             \/ ptr(m_head_tag') < mapped_base_ + mapped_size_]_vars

-----------------------------------------------------------------------------
(* What NodeMemoryPool counts, and when a block goes back to the host.     *)

\* The chunks of a block, and the data pointers callers hold.
NmpChunksOf(begin) == {NmpChunk(begin, k) : k \in 0..(nchunks_ - 1)}
NmpHeld(n) == {p \in DOMAIN n.held : n.held[p] > 0}

\* The chunks linked from at on, at most fuel of them.
RECURSIVE NmpListed(_, _, _)
NmpListed(n, at, fuel) ==
  IF fuel = 0 \/ at < nchunks_ THEN {}
  ELSE {at} \cup NmpListed(n, n.next_[at], fuel - 1)

\* The chunks a 'remaining count' at the end of the list stands for: the
\* k chunks that follow the chunk that carries the count k.
NmpCounted(n) ==
  {c \in NmpChunks :
     \E last \in NmpListed(n, n.free_list_, Cardinality(NmpChunks) + 1) :
       /\ n.next_[last] # NULL
       /\ n.next_[last] < nchunks_
       /\ \E j \in 1..n.next_[last] : c = last + j * (offsetof_data + size_)}

\* The free chunks alloc can reach from free_list_.
NmpReachable(n) ==
  NmpListed(n, n.free_list_, Cardinality(NmpChunks) + 1) \cup NmpCounted(n)

\* C34: after every alloc or free, total_free_ is the sum of the free
\* counters of the blocks in blocks_, which is nchunks times the number of
\* retained blocks minus the chunks held; every free counter of a retained
\* block stays within 0..nchunks.
C34_Accounting ==
  nmp.state = "ready" =>
    /\ \A i \in 1..Len(nmp.blocks_) :
         /\ 0 <= nmp.free[nmp.blocks_[i]]
         /\ nmp.free[nmp.blocks_[i]] <= nchunks_
    /\ nmp.pool_mutex_ = 0 =>
         /\ nmp.total_free_ = NmpSumFree(nmp.blocks_, nmp.free)
         /\ NmpSumFree(nmp.blocks_, nmp.free)
              = nchunks_ * Len(nmp.blocks_) - Cardinality(NmpHeld(nmp))

\* A call has returned after a block went back to the host, with a chunk
\* held and free chunks left.
C34_Witness ==
  /\ nmp.state = "ready"
  /\ nmp.pool_mutex_ = 0
  /\ nmp.freed > 0
  /\ NmpHeld(nmp) # {}
  /\ nmp.total_free_ > 0
  /\ nmp.total_free_ < nchunks_ * Len(nmp.blocks_)

\* The last step of free(p) by thread t.
NmpFreeReturns(t) ==
  /\ nmp.state = "ready"
  /\ nmp.pc[t] = "free_release"
  /\ nmp'.pc[t] = "idle"

\* C35: free releases a block to the host exactly when the freed chunk makes
\* the free counter of its block reach nchunks and total_free_ >= 2 * nchunks
\* at that moment; after the release no chunk of the block and no count that
\* belongs to it is on the free list, every free chunk of every other block
\* is still reachable from free_list_, the block is gone from blocks_, and
\* total_free_ went down by exactly nchunks.
C35_ReleaseOfFreeBlock ==
  [][\A t \in Threads :
       NmpFreeReturns(t) =>
         LET begin == nmp.chunk_free[nmp.ptr[t]]
             released == nmp'.freed = nmp.freed + 1
             retained == {nmp'.blocks_[i] : i \in 1..Len(nmp'.blocks_)}
         IN /\ released <=> (/\ nmp.free[begin] = nchunks_
                              /\ nmp.total_free_ >= 2 * nchunks_)
            /\ nmp'.freed \in {nmp.freed, nmp.freed + 1}
            /\ released =>
                 /\ NmpReachable(nmp') \cap NmpChunksOf(begin) = {}
                 /\ \A b \in retained :
                      {c \in NmpChunksOf(b) : NmpData(c) \notin NmpHeld(nmp')}
                        = NmpReachable(nmp') \cap NmpChunksOf(b)
                 /\ NmpReachable(nmp') \subseteq UNION {NmpChunksOf(b) : b \in retained}
                 /\ begin \notin retained
                 /\ begin \notin nmp'.host
                 /\ retained = {nmp.blocks_[i] : i \in 1..Len(nmp.blocks_)} \ {begin}
                 /\ nmp'.total_free_ = nmp.total_free_ - nchunks_
            /\ ~released =>
                 /\ nmp'.blocks_ = nmp.blocks_
                 /\ nmp'.total_free_ = nmp.total_free_
                 /\ nmp'.free_list_ = nmp.free_list_]_vars

\* A block went back to the host whose last chunk was never carved: the
\* count of its tail was on the free list when free unlinked the block.
C35_Witness ==
  /\ nmp.state = "ready"
  /\ nmp.freed = 1
  /\ nmp.pool_mutex_ = 0
  /\ nmp.free_list_ # NULL
  /\ \E b \in NmpBlocks \ nmp.host :
       /\ nmp.chunk_free[NmpChunk(b, 0)] = b
       /\ nmp.chunk_free[NmpChunk(b, nchunks_ - 1)] = NULL

\* The retained blocks that are free as a whole.
NmpFreeBlocks(n) ==
  {b \in {n.blocks_[i] : i \in 1..Len(n.blocks_)} : n.free[b] = nchunks_}

\* C36: after any sequence of alloc and free calls at most one retained
\* block is completely free: a second block never becomes completely free
\* without being released in the same free call.
C36_OneFreeBlock ==
  (nmp.state = "ready" /\ nmp.pool_mutex_ = 0) =>
    Cardinality(NmpFreeBlocks(nmp)) <= 1

\* A block became completely free while another was, and went back to the
\* host: one completely free block is retained.
C36_Witness ==
  /\ nmp.state = "ready"
  /\ nmp.pool_mutex_ = 0
  /\ nmp.freed > 0
  /\ Cardinality(NmpFreeBlocks(nmp)) = 1
  /\ NmpHeld(nmp) = {}

-----------------------------------------------------------------------------
(* What a failed constructor of MemoryMappedPool leaves at the path.       *)

\* C38: when the constructor has thrown, at whatever step, the file system
\* is as it was before the call: where there was no file there is none
\* (unless another process made one, which the constructor reports as a
\* file of unexpected size), and an existing file has its content and
\* length unchanged.
C38_FailedCtorLeavesFile ==
  ctor.pc = "thrown" =>
    IF ~file_exists(ctor.file_at_entry.state)
      THEN file.state = "absent" \/ ctor.error = "size"
      ELSE file = ctor.file_at_entry

\* The same for the throws before the file is opened.
C38_EarlyThrowLeavesFile ==
  (ctor.pc = "thrown" /\ ctor.error \in {"validation", "open"}) =>
    file = ctor.file_at_entry

-----------------------------------------------------------------------------
(* Progress of allocate and deallocate.                                    *)

====
